---- MODULE Spec2Model ----
(***************************************************************************)
(* A model of the CloudViz resource-graph engine: the graph data model and *)
(* its wire format (cloudviz/core/models.py), the Azure relationship       *)
(* inference (cloudviz/providers/azure/extractor.py), the layout           *)
(* algorithms (cloudviz/visualization/layouts.py) and the rendering        *)
(* engines (cloudviz/visualization/engines/*.py, cloudviz/core/base.py).   *)
(*                                                                         *)
(* Python values are modelled as follows.  None is the record NoneVal, a   *)
(* str is [t |-> "str", v |-> <<tokens>>] where it must be told apart from *)
(* other types (timestamps), a plain TLA+ string elsewhere.  An Enum       *)
(* member is its member NAME ("CONTAINS"); its .value is looked up in the  *)
(* value table of the enum ("contains").  A dict is a TLA+ record or a     *)
(* function over its keys.  A raised exception is the record               *)
(* [ok |-> FALSE, err |-> <class name>].                                   *)
(***************************************************************************)
EXTENDS Integers, Sequences, FiniteSets, TLC

VARIABLES
    \* ---- graph model (ResourceInventory) ----
    resources,        \* ResourceInventory.resources
    relationships,    \* ResourceInventory.relationships
    inv_meta,         \* the other fields of the ResourceInventory
    wire,             \* the dict last returned by ResourceInventory.to_dict
    wire_of,          \* the inventory that `wire` was produced from
    restored,         \* what ResourceInventory.from_dict(wire) returned or raised
    \* ---- relationship inference (dependency walk) ----
    dep,
    \* ---- layout manager ----
    lay,
    \* ---- rendering engines ----
    ren,
    \* ---- flowchart-text engine shared by concurrent render calls ----
    mer,
    \* ---- colour themes ----
    thm,
    \* ---- configuration ----
    cfg,
    \* ---- relationship inference (all four passes) ----
    ext,
    \* ---- label truncation of the two text engines ----
    lbl,
    \* ---- DOT engine ----
    gv,
    \* ---- extraction jobs of the API ----
    jobs

inv_vars == <<resources, relationships, inv_meta, wire, wire_of, restored>>
vars == <<resources, relationships, inv_meta, wire, wire_of, restored, dep, lay, ren, mer, thm, cfg, ext, lbl, gv, jobs>>

-----------------------------------------------------------------------------
(* Bounds of the model.                                                    *)

MaxResources == 2
MaxRelationships == 2

-----------------------------------------------------------------------------
(* Python basics.                                                          *)

NoneVal == [t |-> "None"]
Str(tokens) == [t |-> "str", v |-> tokens]
Ok(x) == [ok |-> TRUE, val |-> x]
Raise(e) == [ok |-> FALSE, err |-> e]

\* a one-piece str
S(x) == Str(<<x>>)

\* bool(x) of an Optional[str]: None and "" are falsy
Truthy(x) == x # NoneVal /\ x # Str(<<>>)

RECURSIVE SeqToSet(_)
SeqToSet(s) == IF s = <<>> THEN {} ELSE {Head(s)} \cup SeqToSet(Tail(s))

-----------------------------------------------------------------------------
(* Enumerations: member name -> value.                                     *)

\* a dict given by its items
Table(items) == [k \in {p[1] : p \in items} |-> (CHOOSE p \in items : p[1] = k)[2]]

ResourceTypeValue ==
    Table({ <<"VIRTUAL_MACHINE", "virtual_machine">>, <<"CONTAINER_INSTANCE", "container_instance">>,
      <<"KUBERNETES_CLUSTER", "kubernetes_cluster">>, <<"SERVERLESS_FUNCTION", "serverless_function">>,
      <<"STORAGE_ACCOUNT", "storage_account">>, <<"DATABASE", "database">>, <<"CACHE", "cache">>,
      <<"BLOB_STORAGE", "blob_storage">>, <<"OBJECT_STORAGE", "object_storage">>,
      <<"VIRTUAL_NETWORK", "virtual_network">>, <<"SUBNET", "subnet">>,
      <<"LOAD_BALANCER", "load_balancer">>, <<"APPLICATION_GATEWAY", "application_gateway">>,
      <<"VPN_GATEWAY", "vpn_gateway">>, <<"KEY_VAULT", "key_vault">>,
      <<"SECURITY_GROUP", "security_group">>, <<"FIREWALL", "firewall">>,
      <<"RESOURCE_GROUP", "resource_group">>, <<"SUBSCRIPTION", "subscription">>,
      <<"MANAGEMENT_GROUP", "management_group">>, <<"OTHER", "other">> })

CloudProviderValue == Table({ <<"AZURE", "azure">>, <<"AWS", "aws">>, <<"GCP", "gcp">> })

RelationshipTypeValue ==
    Table({ <<"CONTAINS", "contains">>, <<"CONNECTS_TO", "connects_to">>, <<"DEPENDS_ON", "depends_on">>,
      <<"MANAGED_BY", "managed_by">>, <<"SECURED_BY", "secured_by">>, <<"ROUTES_TO", "routes_to">>,
      <<"REPLICATES_TO", "replicates_to">>, <<"BACKS_UP_TO", "backs_up_to">> })

ExtractionScopeValue ==
    Table({ <<"SUBSCRIPTION", "subscription">>, <<"RESOURCE_GROUP", "resource_group">>, <<"TAG", "tag">>,
      <<"REGION", "region">>, <<"ORGANIZATION", "organization">>, <<"PROJECT", "project">>,
      <<"ACCOUNT", "account">> })

ResourceType == DOMAIN ResourceTypeValue
CloudProvider == DOMAIN CloudProviderValue
RelationshipType == DOMAIN RelationshipTypeValue
ExtractionScope == DOMAIN ExtractionScopeValue

\* member.value; a value that is no member of the enum has no .value attribute.
EnumValue(table, member) ==
    IF member \in DOMAIN table THEN Ok(table[member]) ELSE Raise("AttributeError")

\* EnumClass(value): the member with that value (a member is looked up to
\* itself), ValueError when there is none.
EnumLookup(table, value) ==
    IF value \in DOMAIN table THEN Ok(value)
    ELSE IF \E m \in DOMAIN table : table[m] = value
    THEN Ok(CHOOSE m \in DOMAIN table : table[m] = value)
    ELSE Raise("ValueError")

-----------------------------------------------------------------------------
(* datetime: isoformat() and fromisoformat().  A datetime carries seconds, *)
(* microseconds and an optional UTC offset; the date is fixed.  A str is   *)
(* the sequence of the pieces isoformat() concatenates.                    *)

DateTime(sec, micro, utc) == [t |-> "datetime", sec |-> sec, micro |-> micro, utc |-> utc]

SecondsText == <<"00:00:00", "00:00:01">>
MicroText == <<"000001">>

isoformat(dt) ==
    Str(<<"2024-01-01", "T", SecondsText[dt.sec + 1]>>
        \o (IF dt.micro # 0 THEN <<".", MicroText[dt.micro]>> ELSE <<>>)
        \o (IF dt.utc THEN <<"+00:00">> ELSE <<>>))

\* str.replace('Z', '+00:00')
ReplaceZ(s) == Str([i \in DOMAIN s.v |-> IF s.v[i] = "Z" THEN "+00:00" ELSE s.v[i]])

IndexOf(seq, x) == CHOOSE i \in DOMAIN seq : seq[i] = x

fromisoformat(s) ==
    LET v == s.v
        n == Len(v)
        hasMicro == n >= 5 /\ v[4] = "."
        rest == IF hasMicro THEN SubSeq(v, 6, n) ELSE SubSeq(v, 4, n)
    IN  IF /\ n >= 3
           /\ v[1] = "2024-01-01"
           /\ v[2] = "T"
           /\ v[3] \in SeqToSet(SecondsText)
           /\ hasMicro => v[5] \in SeqToSet(MicroText)
           /\ rest \in {<<>>, <<"+00:00">>}
        THEN Ok(DateTime(IndexOf(SecondsText, v[3]) - 1,
                         IF hasMicro THEN IndexOf(MicroText, v[5]) ELSE 0,
                         rest = <<"+00:00">>))
        ELSE Raise("ValueError")

-----------------------------------------------------------------------------
(* CloudResource and AzureResource.                                        *)

CloudResourceRequired == {"id", "name", "resource_type", "provider", "region"}

\* the dataclass defaults of the optional fields; a dict is a set of <<key, value>>
CloudResourceDefaults ==
    [ metadata |-> {}, tags |-> {}, properties |-> {},
      created_time |-> NoneVal, last_modified |-> NoneVal, resource_group |-> NoneVal,
      subscription_id |-> NoneVal, parent_resource |-> NoneVal, state |-> NoneVal,
      location |-> NoneVal, size |-> NoneVal, cost_center |-> NoneVal, owner |-> NoneVal,
      environment |-> NoneVal ]

CloudResourceFields == CloudResourceRequired \cup DOMAIN CloudResourceDefaults

AzureResourceDefaults ==
    [ resource_group_name |-> NoneVal, subscription_name |-> NoneVal, tenant_id |-> NoneVal,
      provisioning_state |-> NoneVal, created_by |-> NoneVal, managed_by |-> NoneVal,
      kind |-> NoneVal, sku |-> NoneVal, identity |-> NoneVal, zones |-> NoneVal ]

AzureResourceFields == DOMAIN AzureResourceDefaults

\* one timestamp field of __post_init__: a str is parsed, anything else is kept
EnsureDateTime(x) ==
    IF x.t = "str" THEN fromisoformat(ReplaceZ(x)) ELSE Ok(x)

CloudResource_post_init(self) ==
    LET created == EnsureDateTime(self.created_time)
        modified == EnsureDateTime(self.last_modified)
    IN  IF ~created.ok THEN created
        ELSE IF ~modified.ok THEN modified
        ELSE Ok([self EXCEPT !.location = IF @ = NoneVal THEN self.region ELSE @,
                             !.created_time = created.val,
                             !.last_modified = modified.val])

\* the dataclass-generated __init__ of class `cls` with keyword arguments `kw`
DataclassInit(cls, required, defaults, kw) ==
    IF \/ ~(DOMAIN kw \subseteq required \cup DOMAIN defaults)
       \/ ~(required \subseteq DOMAIN kw)
    THEN Raise("TypeError")
    ELSE Ok([k \in {"cls"} \cup required \cup DOMAIN defaults |->
                IF k = "cls" THEN cls
                ELSE IF k \in DOMAIN kw THEN kw[k] ELSE defaults[k]])

CloudResource(kw) ==
    LET made == DataclassInit("CloudResource", CloudResourceRequired, CloudResourceDefaults, kw)
    IN  IF made.ok THEN CloudResource_post_init(made.val) ELSE made

\* "/subscriptions/{sub}/resourceGroups/{rg}/...": an id is a sequence of path parts
AzureResource_extract_resource_group_from_id(id) ==
    IF \E i \in DOMAIN id : id[i] = "resourceGroups"
    THEN LET rg_index == CHOOSE i \in DOMAIN id :
                             id[i] = "resourceGroups" /\ \A j \in 1..(i - 1) : id[j] # "resourceGroups"
         IN  IF rg_index + 1 <= Len(id) THEN S(id[rg_index + 1]) ELSE NoneVal
    ELSE NoneVal

AzureResource_post_init(self0) ==
    LET base == CloudResource_post_init(self0)
    IN  IF ~base.ok THEN base
        ELSE LET self == base.val
                 rgn == IF ~Truthy(self.resource_group_name) /\ self.id # <<>>
                        THEN AzureResource_extract_resource_group_from_id(self.id)
                        ELSE self.resource_group_name
             IN  Ok([self EXCEPT !.provider = "AZURE",
                                 !.resource_group_name = rgn,
                                 !.resource_group = IF Truthy(rgn) THEN rgn ELSE @])

AzureResource(kw) ==
    LET made == DataclassInit("AzureResource", CloudResourceRequired,
                              CloudResourceDefaults @@ AzureResourceDefaults, kw)
    IN  IF made.ok THEN AzureResource_post_init(made.val) ELSE made

TimeToWire(x) == IF x # NoneVal THEN isoformat(x) ELSE NoneVal

CloudResource_to_dict(self) ==
    LET rt == EnumValue(ResourceTypeValue, self.resource_type)
        pv == EnumValue(CloudProviderValue, self.provider)
    IN  IF ~rt.ok THEN rt
        ELSE IF ~pv.ok THEN pv
        ELSE Ok([k \in CloudResourceFields |->
                    CASE k = "resource_type" -> rt.val
                      [] k = "provider" -> pv.val
                      [] k = "created_time" -> TimeToWire(self.created_time)
                      [] k = "last_modified" -> TimeToWire(self.last_modified)
                      [] OTHER -> self[k]])

\* AzureResource.to_dict: super().to_dict() updated with the Azure fields (no
\* Azure resource type has been set on the object, so none is added)
AzureResource_to_dict(self) ==
    LET data == CloudResource_to_dict(self)
    IN  IF ~data.ok THEN data
        ELSE Ok([k \in AzureResourceFields |-> self[k]] @@ data.val)

\* r.to_dict(): method dispatch on the class of the object
Resource_to_dict(self) ==
    IF self.cls = "AzureResource" THEN AzureResource_to_dict(self)
    ELSE CloudResource_to_dict(self)

\* The result of a from_dict call together with its argument as the call leaves
\* it: from_dict assigns the enum members into `data` before it constructs.
Called(res, data) == [res |-> res, data |-> data]

CloudResource_from_dict(data) ==
    IF "resource_type" \notin DOMAIN data THEN Called(Raise("KeyError"), data)
    ELSE LET rt == EnumLookup(ResourceTypeValue, data.resource_type)
         IN  IF ~rt.ok THEN Called(rt, data)
             ELSE LET data1 == [data EXCEPT !.resource_type = rt.val]
                  IN  IF "provider" \notin DOMAIN data THEN Called(Raise("KeyError"), data1)
                      ELSE LET pv == EnumLookup(CloudProviderValue, data.provider)
                           IN  IF ~pv.ok THEN Called(pv, data1)
                               ELSE LET data2 == [data1 EXCEPT !.provider = pv.val]
                                    IN  Called(CloudResource(data2), data2)

-----------------------------------------------------------------------------
(* ResourceRelationship.                                                   *)

ResourceRelationshipRequired == {"source_id", "target_id", "relationship_type"}

ResourceRelationshipDefaults ==
    [ properties |-> {}, metadata |-> {}, strength |-> "1.0", bidirectional |-> FALSE ]

\* the dataclass has no __post_init__: any relationship_type is stored as given
ResourceRelationship(kw) ==
    DataclassInit("ResourceRelationship", ResourceRelationshipRequired,
                  ResourceRelationshipDefaults, kw)

ResourceRelationship_to_dict(self) ==
    LET kind == EnumValue(RelationshipTypeValue, self.relationship_type)
    IN  IF ~kind.ok THEN kind
        ELSE Ok([k \in ResourceRelationshipRequired \cup DOMAIN ResourceRelationshipDefaults |->
                    IF k = "relationship_type" THEN kind.val ELSE self[k]])

ResourceRelationship_from_dict(data) ==
    IF "relationship_type" \notin DOMAIN data THEN Called(Raise("KeyError"), data)
    ELSE LET kind == EnumLookup(RelationshipTypeValue, data.relationship_type)
         IN  IF ~kind.ok THEN Called(kind, data)
             ELSE LET data1 == [data EXCEPT !.relationship_type = kind.val]
                  IN  Called(ResourceRelationship(data1), data1)

-----------------------------------------------------------------------------
(* ResourceInventory.                                                      *)

\* [f(x) for x in xs]: the list of results, or the first exception raised
RECURSIVE MapOrRaise(_, _)
MapOrRaise(F(_), xs) ==
    IF xs = <<>> THEN Ok(<<>>)
    ELSE LET h == F(Head(xs))
         IN  IF ~h.ok THEN h
             ELSE LET t == MapOrRaise(F, Tail(xs))
                  IN  IF ~t.ok THEN t ELSE Ok(<<h.val>> \o t.val)

Inventory(res, rels, meta) ==
    [ resources |-> res, relationships |-> rels, metadata |-> meta.metadata,
      extraction_time |-> meta.extraction_time, extraction_scope |-> meta.extraction_scope,
      scope_identifier |-> meta.scope_identifier, provider |-> meta.provider ]

\* x.value if x else None
OptionalEnumValue(table, x) ==
    IF x # NoneVal THEN LET v == EnumValue(table, x.v[1])
                        IN  IF v.ok THEN Ok(S(v.val)) ELSE v
    ELSE Ok(NoneVal)

ResourceInventory_to_dict(self) ==
    LET res == MapOrRaise(Resource_to_dict, self.resources)
        rels == MapOrRaise(ResourceRelationship_to_dict, self.relationships)
        scope == OptionalEnumValue(ExtractionScopeValue, self.extraction_scope)
        prov == OptionalEnumValue(CloudProviderValue, self.provider)
    IN  IF ~res.ok THEN res
        ELSE IF ~rels.ok THEN rels
        ELSE IF ~scope.ok THEN scope
        ELSE IF ~prov.ok THEN prov
        ELSE Ok([ resources |-> res.val, relationships |-> rels.val,
                  metadata |-> self.metadata,
                  extraction_time |-> isoformat(self.extraction_time),
                  extraction_scope |-> scope.val,
                  scope_identifier |-> self.scope_identifier,
                  provider |-> prov.val ])

\* Enum(data[k]) if data.get(k) else None
OptionalEnumLookup(table, data, k) ==
    IF k \in DOMAIN data /\ Truthy(data[k])
    THEN LET m == EnumLookup(table, data[k].v[1])
         IN  IF m.ok THEN Ok(S(m.val)) ELSE m
    ELSE Ok(NoneVal)

\* [Class.from_dict(x) for x in xs]: the list built (or the first exception),
\* and xs as the calls leave it
RECURSIVE FromDictEach(_, _)
FromDictEach(F(_), xs) ==
    IF xs = <<>> THEN Called(Ok(<<>>), <<>>)
    ELSE LET h == F(Head(xs))
         IN  IF ~h.res.ok THEN Called(h.res, <<h.data>> \o Tail(xs))
             ELSE LET t == FromDictEach(F, Tail(xs))
                  IN  Called(IF ~t.res.ok THEN t.res ELSE Ok(<<h.res.val>> \o t.res.val),
                             <<h.data>> \o t.data)

ResourceInventory_from_dict(data) ==
    LET res == FromDictEach(CloudResource_from_dict,
                            IF "resources" \in DOMAIN data THEN data.resources ELSE <<>>)
        data1 == IF "resources" \in DOMAIN data
                 THEN [data EXCEPT !.resources = res.data] ELSE data
        rels == FromDictEach(ResourceRelationship_from_dict,
                             IF "relationships" \in DOMAIN data THEN data.relationships ELSE <<>>)
        data2 == IF "relationships" \in DOMAIN data
                 THEN [data1 EXCEPT !.relationships = rels.data] ELSE data1
        time == IF "extraction_time" \in DOMAIN data
                THEN fromisoformat(data.extraction_time) ELSE Raise("KeyError")
        scope == OptionalEnumLookup(ExtractionScopeValue, data, "extraction_scope")
        prov == OptionalEnumLookup(CloudProviderValue, data, "provider")
    IN  IF ~res.res.ok THEN Called(res.res, data1)
        ELSE IF ~rels.res.ok THEN Called(rels.res, data2)
        ELSE IF ~time.ok THEN Called(time, data2)
        ELSE IF ~scope.ok THEN Called(scope, data2)
        ELSE IF ~prov.ok THEN Called(prov, data2)
        ELSE Called(Ok([ resources |-> res.res.val, relationships |-> rels.res.val,
                         metadata |-> IF "metadata" \in DOMAIN data THEN data.metadata ELSE {},
                         extraction_time |-> time.val,
                         extraction_scope |-> scope.val,
                         scope_identifier |-> IF "scope_identifier" \in DOMAIN data
                                              THEN data.scope_identifier ELSE NoneVal,
                         provider |-> prov.val ]),
                    data2)

-----------------------------------------------------------------------------
(* The graph model as a state machine: the inventory is built with         *)
(* add_resource / add_relationship, serialised with to_dict and read back  *)
(* with from_dict.                                                         *)

AzureId(name) == <<"subscriptions", "s1", "resourceGroups", "rg1", name>>

\* the keyword arguments of the constructor calls whose result add_resource
\* receives: a timestamp is absent, a datetime, or its ISO-8601 text
ResourceArgs(n, ty, ct) ==
    [ id |-> AzureId(n), name |-> n, resource_type |-> ty, provider |-> "AZURE",
      region |-> S("westeurope"), created_time |-> ct ]

ResourceInputs ==
    { r.val : r \in
        { CloudResource(ResourceArgs("vm1", "VIRTUAL_MACHINE", NoneVal)),
          CloudResource(ResourceArgs("vm1", "VIRTUAL_MACHINE", DateTime(1, 1, TRUE))),
          CloudResource(ResourceArgs("net1", "VIRTUAL_NETWORK",
                                     isoformat(DateTime(0, 0, FALSE)))),
          AzureResource(ResourceArgs("net1", "SUBNET", NoneVal)) } }

\* relationship kinds a caller may pass: a member and a str that is no member
KindInputs == {"CONTAINS", "owns"}

RelationshipInputs ==
    { r.val : r \in
        { ResourceRelationship([source_id |-> AzureId("vm1"), target_id |-> AzureId("net1"),
                                relationship_type |-> k]) : k \in KindInputs } }

MetaInputs ==
    { [ metadata |-> {}, extraction_time |-> DateTime(0, 1, FALSE),
        extraction_scope |-> NoneVal, scope_identifier |-> NoneVal, provider |-> NoneVal ],
      [ metadata |-> {<<"source", "azure">>}, extraction_time |-> DateTime(1, 0, TRUE),
        extraction_scope |-> S("RESOURCE_GROUP"), scope_identifier |-> S("rg1"),
        provider |-> S("AZURE") ] }

inventory == Inventory(resources, relationships, inv_meta)

\* ResourceInventory.add_resource
add_resource(resource) ==
    /\ Len(resources) < MaxResources
    /\ resources' = Append(resources, resource)
    /\ UNCHANGED <<relationships, inv_meta, wire, wire_of, restored>>

\* ResourceInventory.add_relationship
add_relationship(relationship) ==
    /\ Len(relationships) < MaxRelationships
    /\ relationships' = Append(relationships, relationship)
    /\ UNCHANGED <<resources, inv_meta, wire, wire_of, restored>>

\* d = inventory.to_dict()
to_dict ==
    /\ wire' = ResourceInventory_to_dict(inventory)
    /\ wire_of' = inventory
    /\ restored' = NoneVal
    /\ UNCHANGED <<resources, relationships, inv_meta>>

\* ResourceInventory.from_dict(d)
from_dict ==
    /\ wire # NoneVal
    /\ wire.ok
    /\ LET call == ResourceInventory_from_dict(wire.val)
       IN  /\ restored' = call.res
           /\ wire' = Ok(call.data)
    /\ UNCHANGED <<resources, relationships, inv_meta, wire_of>>

InvInit ==
    /\ resources = <<>>
    /\ relationships = <<>>
    /\ inv_meta \in MetaInputs
    /\ wire = NoneVal
    /\ wire_of = NoneVal
    /\ restored = NoneVal

AddResource == \E r \in ResourceInputs : add_resource(r) /\ UNCHANGED <<dep, lay, ren, mer, thm, cfg, ext, lbl, gv, jobs>>
AddRelationship == \E r \in RelationshipInputs : add_relationship(r) /\ UNCHANGED <<dep, lay, ren, mer, thm, cfg, ext, lbl, gv, jobs>>
ToDict == to_dict /\ UNCHANGED <<dep, lay, ren, mer, thm, cfg, ext, lbl, gv, jobs>>
FromDict == from_dict /\ UNCHANGED <<dep, lay, ren, mer, thm, cfg, ext, lbl, gv, jobs>>

InvNext ==
    \/ AddResource
    \/ AddRelationship
    \/ ToDict
    \/ FromDict

DepIdle == dep = NoneVal
LayIdle == lay = NoneVal
RenIdle == ren = NoneVal
MerIdle == mer = NoneVal
ThmIdle == thm = NoneVal
CfgIdle == cfg = NoneVal
ExtIdle == ext = NoneVal
LblIdle == lbl = NoneVal
GvIdle == gv = NoneVal
JobsIdle == jobs = NoneVal
NewIdle == LblIdle /\ GvIdle /\ JobsIdle
RestIdle == MerIdle /\ ThmIdle /\ CfgIdle /\ ExtIdle /\ NewIdle

Init == InvInit /\ DepIdle /\ LayIdle /\ RenIdle /\ RestIdle

Next == InvNext

Spec == Init /\ [][Next]_vars

-----------------------------------------------------------------------------
(* Claims about the graph model, checked under Spec.                       *)

\* the inventory uses only members of the defined enumerations
OnlyDefinedEnums(i) ==
    /\ \A k \in DOMAIN i.resources :
          /\ i.resources[k].resource_type \in ResourceType
          /\ i.resources[k].provider \in CloudProvider
    /\ \A k \in DOMAIN i.relationships :
          i.relationships[k].relationship_type \in RelationshipType

\* C1: for every inventory that uses only the defined enumerations,
\* from_dict(to_dict(inventory)) returns an inventory structurally equal to the
\* original (same resources in order, relationships, metadata, extraction time,
\* scope, scope identifier and provider).
C1_RoundTrip ==
    (restored # NoneVal /\ OnlyDefinedEnums(wire_of))
        => (restored.ok /\ restored.val = wire_of)

\* C1 where it does hold: an inventory whose resources are all plain CloudResource
\* objects is read back equal.
C1_RoundTripPlain ==
    (/\ restored # NoneVal
     /\ OnlyDefinedEnums(wire_of)
     /\ \A k \in DOMAIN wire_of.resources : wire_of.resources[k].cls = "CloudResource")
        => (restored.ok /\ restored.val = wire_of)

\* C29: ResourceInventory.from_dict leaves the map it is given as it was:
\* the map and the resource and relationship maps in it hold the same keys
\* and values after the call as before it.
C29_InputUnchanged == [][from_dict => wire' = wire]_vars

\* C5: no two resources of the inventory share an id (add_resource rejects a
\* resource whose id is already present).
C5_UniqueIds ==
    \A i, j \in DOMAIN resources : i # j => resources[i].id # resources[j].id

\* C6: no relationship with a kind outside the eight defined relationship types
\* ever exists in the inventory.
C6_ClosedKinds ==
    \A i \in DOMAIN relationships : relationships[i].relationship_type \in RelationshipType

-----------------------------------------------------------------------------
(* Relationship inference: the dependency pass of the Azure extractor.     *)
(* A resource's properties are a Python object graph: a heap of nodes      *)
(* (dict, list, str, other scalar) addressed by reference, so that a dict  *)
(* or list can contain itself.  The recursive walk extract_resource_ids is *)
(* run one loop iteration at a time on an explicit call stack.             *)

\* the interpreter's recursion limit (sys.getrecursionlimit()), scaled down
RecursionLimit == 6

DictNode(items) == [t |-> "dict", items |-> items]
ListNode(items) == [t |-> "list", items |-> items]
StrNode(v) == [t |-> "str", v |-> v]
IntNode == [t |-> "int"]

Props(heap, root) == [heap |-> heap, root |-> root]

\* '/subscriptions/' in value, for a value given by its path parts
HasSubscriptions(v) == \E i \in 1..(Len(v) - 1) : v[i] = "subscriptions"

\* bool(resource.properties): an empty dict is falsy
PropsTruthy(props) == props.heap[props.root].items # <<>>

\* properties values, for a resource `self` and another resource `other`
PropsEmpty == Props(1 :> DictNode(<<>>), 1)
PropsPlain ==
    Props(1 :> DictNode(<<<<"id", 2>>, <<"count", 3>>>>)
          @@ 2 :> StrNode(<<"nic-config-1">>) @@ 3 :> IntNode, 1)
PropsOwnId(self) ==
    Props(1 :> DictNode(<<<<"id", 2>>>>) @@ 2 :> StrNode(self), 1)
PropsNested(other) ==
    Props(1 :> DictNode(<<<<"subnet", 2>>, <<"backends", 3>>>>)
          @@ 2 :> DictNode(<<<<"id", 4>>>>)
          @@ 3 :> ListNode(<<5>>)
          @@ 4 :> StrNode(other)
          @@ 5 :> DictNode(<<<<"resourceId", 4>>>>), 1)
PropsBoth(self, other) ==
    Props(1 :> DictNode(<<<<"resourceId", 2>>, <<"peer", 3>>>>)
          @@ 2 :> StrNode(other)
          @@ 3 :> DictNode(<<<<"id", 4>>>>)
          @@ 4 :> StrNode(self), 1)
PropsCyclicDict(other) ==
    Props(1 :> DictNode(<<<<"id", 2>>, <<"parent", 1>>>>) @@ 2 :> StrNode(other), 1)
PropsCyclicList(other) ==
    Props(1 :> DictNode(<<<<"items", 2>>>>) @@ 2 :> ListNode(<<3, 1>>)
          @@ 3 :> DictNode(<<<<"id", 4>>>>) @@ 4 :> StrNode(other), 1)

PropsInputs(self, other) ==
    { PropsEmpty, PropsPlain, PropsOwnId(self), PropsNested(other), PropsBoth(self, other),
      PropsCyclicDict(other), PropsCyclicList(other) }

DepIds == <<AzureId("vm1"), AzureId("net1")>>

\* the resource lists extract_resource_relationships is called with
DepResourceLists ==
    { <<[id |-> DepIds[1], properties |-> p]>> : p \in PropsInputs(DepIds[1], DepIds[2]) }
    \cup
    { <<[id |-> DepIds[1], properties |-> p], [id |-> DepIds[2], properties |-> q]>> :
        p \in PropsInputs(DepIds[1], DepIds[2]), q \in PropsInputs(DepIds[2], DepIds[1]) }

\* resource_lookup = {resource.id: resource for resource in resources}
resource_lookup(res) == { res[i].id : i \in DOMAIN res }

Frame(node, i) == [node |-> node, i |-> i]

DepStart(res) ==
    [ pc |-> "next_resource", resources |-> res, ri |-> 0, stack |-> <<>>,
      dependencies |-> <<>>, todo |-> {}, relationships |-> <<>> ]

DepInit == dep \in { DepStart(res) : res \in DepResourceLists }

dep_resource == dep.resources[dep.ri]

\* for resource in resources: if resource.properties: ... _find_resource_dependencies
DepNextResource ==
    /\ dep.pc = "next_resource"
    /\ IF dep.ri = Len(dep.resources)
       THEN dep' = [dep EXCEPT !.pc = "done"]
       ELSE LET r == dep.resources[dep.ri + 1]
            IN  IF PropsTruthy(r.properties)
                THEN dep' = [dep EXCEPT !.ri = @ + 1, !.pc = "walking", !.dependencies = <<>>,
                                        !.stack = <<Frame(r.properties.root, 1)>>]
                ELSE dep' = [dep EXCEPT !.ri = @ + 1]

\* extract_resource_ids(value, ...): a call deeper than the recursion limit raises
Call(d, child) ==
    IF Len(d.stack) >= RecursionLimit
    THEN [d EXCEPT !.pc = "RecursionError", !.stack = <<>>]
    ELSE [d EXCEPT !.stack = Append(@, Frame(child, 1))]

\* one iteration of the loops of extract_resource_ids in the innermost call
extract_resource_ids(d) ==
    LET depth == Len(d.stack)
        top == d.stack[depth]
        heap == d.resources[d.ri].properties.heap
        obj == heap[top.node]
        return == [d EXCEPT !.stack = SubSeq(@, 1, depth - 1)]
        advanced == [d EXCEPT !.stack[depth].i = @ + 1]
    IN  IF obj.t = "dict"
        THEN IF top.i > Len(obj.items) THEN return
             ELSE LET key == obj.items[top.i][1]
                      value == heap[obj.items[top.i][2]]
                  IN  IF /\ key \in {"id", "resourceId"}
                         /\ value.t = "str"
                         /\ HasSubscriptions(value.v)
                      THEN [advanced EXCEPT !.dependencies = Append(@, value.v)]
                      ELSE Call(advanced, obj.items[top.i][2])
        ELSE IF obj.t = "list"
        THEN IF top.i > Len(obj.items) THEN return
             ELSE Call(advanced, obj.items[top.i])
        ELSE return

DepWalk ==
    /\ dep.pc = "walking"
    /\ dep.stack # <<>>
    /\ dep' = extract_resource_ids(dep)

\* return list(set(dependencies))
DepWalkReturn ==
    /\ dep.pc = "walking"
    /\ dep.stack = <<>>
    /\ dep' = [dep EXCEPT !.pc = "emitting", !.todo = SeqToSet(dep.dependencies)]

DependsOn(source, target) ==
    [ source_id |-> source, target_id |-> target, relationship_type |-> "DEPENDS_ON" ]

\* the relationships appended for dep_id when _find_resource_dependencies
\* returns `dependencies` as collected: one for each place the id was found
EmitDependency_per_occurrence(d, dep_id) ==
    IF dep_id \in resource_lookup(d.resources)
    THEN d.relationships
         \o [ k \in 1..Cardinality({i \in DOMAIN d.dependencies : d.dependencies[i] = dep_id}) |->
                DependsOn(d.resources[d.ri].id, dep_id) ]
    ELSE d.relationships

\* the relationship appended for dep_id, if any
EmitDependency(d, dep_id) ==
    IF dep_id \in resource_lookup(d.resources)
    THEN Append(d.relationships, DependsOn(d.resources[d.ri].id, dep_id))
    ELSE d.relationships

\* for dep_id in dependencies: the iteration order of a list made from a set of
\* str is fixed by the hash seed of the process, so any order is possible
DepEmit ==
    /\ dep.pc = "emitting"
    /\ IF dep.todo = {}
       THEN dep' = [dep EXCEPT !.pc = "next_resource"]
       ELSE \E dep_id \in dep.todo :
               dep' = [dep EXCEPT !.todo = @ \ {dep_id},
                                  !.relationships = EmitDependency(dep, dep_id)]

InvIdle ==
    /\ resources = <<>> /\ relationships = <<>> /\ inv_meta = NoneVal
    /\ wire = NoneVal /\ wire_of = NoneVal /\ restored = NoneVal

DepStepNextResource == DepNextResource /\ UNCHANGED <<inv_vars, lay, ren, mer, thm, cfg, ext, lbl, gv, jobs>>
DepStepWalk == DepWalk /\ UNCHANGED <<inv_vars, lay, ren, mer, thm, cfg, ext, lbl, gv, jobs>>
DepStepWalkReturn == DepWalkReturn /\ UNCHANGED <<inv_vars, lay, ren, mer, thm, cfg, ext, lbl, gv, jobs>>
DepStepEmit == DepEmit /\ UNCHANGED <<inv_vars, lay, ren, mer, thm, cfg, ext, lbl, gv, jobs>>

DepNext ==
    \/ DepStepNextResource
    \/ DepStepWalk
    \/ DepStepWalkReturn
    \/ DepStepEmit

InitDep == InvIdle /\ DepInit /\ LayIdle /\ RenIdle /\ RestIdle

SpecDep == InitDep /\ [][DepNext]_vars

-----------------------------------------------------------------------------
(* Claims about dependency discovery, checked under SpecDep.               *)

\* C3: dependency discovery terminates on every input, a cyclic properties
\* structure included: the walk is never cut off by the recursion limit.
C3_WalkTerminates == dep.pc # "RecursionError"

\* C4: dependency discovery never emits a DependsOn relationship whose source
\* and target are the same resource.
C4_NoSelfEdge ==
    \A i \in DOMAIN dep.relationships :
        dep.relationships[i].source_id # dep.relationships[i].target_id

\* C20: the relationships of the dependency pass hold at most one DependsOn
\* edge for a source resource and a target id, however often the id occurs
\* in the source's properties.
C20_OneEdgePerTarget ==
    \A i, j \in DOMAIN dep.relationships :
        ( /\ dep.relationships[i].source_id = dep.relationships[j].source_id
          /\ dep.relationships[i].target_id = dep.relationships[j].target_id ) => i = j

\* the walk of the current resource found one id at two places and its
\* edges have been emitted
C20_FoundTwiceEmitted ==
    /\ dep.pc = "next_resource"
    /\ dep.ri > 0
    /\ \E i, j \in DOMAIN dep.dependencies :
          /\ i # j
          /\ dep.dependencies[i] = dep.dependencies[j]
          /\ \E k \in DOMAIN dep.relationships :
                dep.relationships[k] = DependsOn(dep.resources[dep.ri].id, dep.dependencies[i])

-----------------------------------------------------------------------------
(* Layout manager.  A layout result (a dict from resource id to a dict of  *)
(* layout attributes) is a function over the ids it holds.  A dict whose   *)
(* iteration order matters is a sequence of <<key, value>> items in        *)
(* insertion order.  A float is kept exact: tenths as an integer, an angle *)
(* as a fraction, a cosine or sine as the term it is computed from.        *)

\* CloudResource.get_category
type_categories ==
    Table({ <<"VIRTUAL_MACHINE", "Compute">>, <<"CONTAINER_INSTANCE", "Compute">>,
            <<"KUBERNETES_CLUSTER", "Compute">>, <<"SERVERLESS_FUNCTION", "Compute">>,
            <<"STORAGE_ACCOUNT", "Storage">>, <<"DATABASE", "Storage">>, <<"CACHE", "Storage">>,
            <<"BLOB_STORAGE", "Storage">>, <<"OBJECT_STORAGE", "Storage">>,
            <<"VIRTUAL_NETWORK", "Networking">>, <<"SUBNET", "Networking">>,
            <<"LOAD_BALANCER", "Networking">>, <<"APPLICATION_GATEWAY", "Networking">>,
            <<"VPN_GATEWAY", "Networking">>, <<"KEY_VAULT", "Security">>,
            <<"SECURITY_GROUP", "Security">>, <<"FIREWALL", "Security">>,
            <<"RESOURCE_GROUP", "Management">>, <<"SUBSCRIPTION", "Management">>,
            <<"MANAGEMENT_GROUP", "Management">> })

get_category(resource) ==
    IF resource.resource_type \in DOMAIN type_categories
    THEN type_categories[resource.resource_type] ELSE "Other"

\* the order of str values under <, for the strings that are sorted
SortedStrings ==
    << "A", "B", "C", "Compute", "D", "Management", "Networking", "Other", "Security",
       "Storage", "Z", "app", "data", "vm2", "vnet" >>

StrLess(a, b) == IndexOf(SortedStrings, a) < IndexOf(SortedStrings, b)

\* dict.get(key, default) on a dict given as items
HasKey(items, k) == \E i \in DOMAIN items : items[i][1] = k
Get(items, k, default) ==
    IF HasKey(items, k) THEN items[CHOOSE i \in DOMAIN items : items[i][1] = k][2]
    ELSE default
\* d[k] = v: a new key goes last, an old key keeps its place
Put(items, k, v) ==
    IF HasKey(items, k)
    THEN [i \in DOMAIN items |-> IF items[i][1] = k THEN <<k, v>> ELSE items[i]]
    ELSE Append(items, <<k, v>>)
Keys(items) == [i \in DOMAIN items |-> items[i][1]]

\* arrangement.update(other), both layout results
Update(arrangement, other) ==
    [k \in DOMAIN arrangement \cup DOMAIN other |->
        IF k \in DOMAIN other THEN other[k] ELSE arrangement[k]]

EmptyArrangement == [k \in {} |-> NoneVal]

\* groups[key(resource)].append(resource), over the list in order
RECURSIVE GroupBy(_, _, _)
GroupBy(KeyOf(_), xs, groups) ==
    IF xs = <<>> THEN groups
    ELSE GroupBy(KeyOf, Tail(xs),
                 Put(groups, KeyOf(Head(xs)), Append(Get(groups, KeyOf(Head(xs)), <<>>), Head(xs))))

\* math.ceil(math.sqrt(n))
CeilSqrt(n) == CHOOSE k \in 0..n : k * k >= n /\ \A j \in 0..(k - 1) : j * j < n

\* math.ceil(a / b), b > 0
CeilDiv(a, b) == (a + b - 1) \div b

\* ---- HierarchicalLayout ----

HierarchicalLayout_layout_config(self) ==
    [ direction |-> Get(self.config, "direction", "TD"),
      group_by_type |-> Get(self.config, "group_by_type", FALSE),
      group_by_resource_group |-> Get(self.config, "group_by_resource_group", TRUE),
      separate_networks |-> Get(self.config, "separate_networks", TRUE) ]

\* rel.relationship_type.value == 'CONTAINS'
IsContainment(rel) == RelationshipTypeValue[rel.relationship_type] = "CONTAINS"

\* hierarchy[rel.source_id].append(rel.target_id) for each containment
\* relationship; KeyError when the source is no resource of the list
RECURSIVE AddContainment(_, _)
AddContainment(hierarchy, rels) ==
    IF rels = <<>> THEN Ok(hierarchy)
    ELSE LET rel == Head(rels)
         IN  IF ~IsContainment(rel) THEN AddContainment(hierarchy, Tail(rels))
             ELSE IF ~HasKey(hierarchy, rel.source_id) THEN Raise("KeyError")
             ELSE AddContainment(
                     Put(hierarchy, rel.source_id,
                         Append(Get(hierarchy, rel.source_id, <<>>), rel.target_id)),
                     Tail(rels))

RECURSIVE DictOfIds(_, _)
DictOfIds(res, items) ==
    IF res = <<>> THEN items ELSE DictOfIds(Tail(res), Put(items, Head(res).id, <<>>))

HierarchicalLayout_build_hierarchy(res, rels) == AddContainment(DictOfIds(res, <<>>), rels)

\* the BFS loop of _assign_levels: one level per round
RECURSIVE AssignLevelsNodes(_, _, _, _, _)
AssignLevelsNodes(hierarchy, nodes, level, levels, next_nodes) ==
    IF nodes = <<>> THEN [levels |-> levels, next_nodes |-> next_nodes]
    ELSE LET node == Head(nodes)
         IN  IF HasKey(levels, node)
             THEN AssignLevelsNodes(hierarchy, Tail(nodes), level, levels, next_nodes)
             ELSE AssignLevelsNodes(hierarchy, Tail(nodes), level, Put(levels, node, level),
                                    next_nodes \o Get(hierarchy, node, <<>>))

RECURSIVE AssignLevelsBFS(_, _, _, _)
AssignLevelsBFS(hierarchy, current_nodes, current_level, levels) ==
    IF current_nodes = <<>> THEN levels
    ELSE LET round == AssignLevelsNodes(hierarchy, current_nodes, current_level, levels, <<>>)
         IN  AssignLevelsBFS(hierarchy, round.next_nodes, current_level + 1, round.levels)

RECURSIVE Concat(_)
Concat(seqs) == IF seqs = <<>> THEN <<>> ELSE Head(seqs) \o Concat(Tail(seqs))

RECURSIVE SelectSeqBy(_, _)
SelectSeqBy(Keep(_), xs) ==
    IF xs = <<>> THEN <<>>
    ELSE (IF Keep(Head(xs)) THEN <<Head(xs)>> ELSE <<>>) \o SelectSeqBy(Keep, Tail(xs))

RECURSIVE DefaultLevels(_, _)
DefaultLevels(nodes, levels) ==
    IF nodes = <<>> THEN levels
    ELSE DefaultLevels(Tail(nodes),
                       IF HasKey(levels, Head(nodes)) THEN levels ELSE Put(levels, Head(nodes), 0))

HierarchicalLayout_assign_levels(hierarchy) ==
    LET all_children == SeqToSet(Concat([i \in DOMAIN hierarchy |-> hierarchy[i][2]]))
        IsRoot(node) == node \notin all_children
        roots == SelectSeqBy(IsRoot, Keys(hierarchy))
        levels == AssignLevelsBFS(hierarchy, roots, 0, <<>>)
    IN  DefaultLevels(Keys(hierarchy), levels)

GroupName(resource) ==
    IF Truthy(resource.resource_group) THEN resource.resource_group.v[1] ELSE "default"

HierarchicalLayout_group_by_resource_group(res) == GroupBy(GroupName, res, <<>>)

\* the sort key (levels.get(r.id, 0), r.get_category(), r.name), compared as tuples
HierarchyKeyLess(levels, a, b) ==
    LET la == Get(levels, a.id, 0)
        lb == Get(levels, b.id, 0)
    IN  \/ la < lb
        \/ la = lb /\ StrLess(get_category(a), get_category(b))
        \/ la = lb /\ get_category(a) = get_category(b) /\ StrLess(a.name, b.name)

\* sorted(xs, key=...): stable
RECURSIVE InsertSorted(_, _, _)
InsertSorted(Less(_, _), x, sorted) ==
    IF sorted = <<>> THEN <<x>>
    ELSE IF Less(x, Head(sorted)) THEN <<x>> \o sorted
    ELSE <<Head(sorted)>> \o InsertSorted(Less, x, Tail(sorted))

RECURSIVE Sorted(_, _)
Sorted(Less(_, _), xs) ==
    IF xs = <<>> THEN <<>>
    ELSE InsertSorted(Less, xs[Len(xs)], Sorted(Less, SubSeq(xs, 1, Len(xs) - 1)))

RECURSIVE AssignPositions(_, _, _, _)
AssignPositions(sorted_resources, levels, level_positions, arrangement) ==
    IF sorted_resources = <<>> THEN arrangement
    ELSE LET resource == Head(sorted_resources)
             level == Get(levels, resource.id, 0)
             position == Get(level_positions, level, 0)
         IN  AssignPositions(Tail(sorted_resources), levels,
                             Put(level_positions, level, position + 1),
                             Update(arrangement,
                                    resource.id :> [ level |-> level, position |-> position,
                                                     group |-> GroupName(resource),
                                                     category |-> get_category(resource) ]))

HierarchicalLayout_arrange_group_hierarchically(res, levels, hierarchy) ==
    LET Less(a, b) == HierarchyKeyLess(levels, a, b)
    IN  AssignPositions(Sorted(Less, res), levels, <<>>, EmptyArrangement)

RECURSIVE ArrangeGroups(_, _, _)
ArrangeGroups(ArrangeGroup(_), groups, arrangement) ==
    IF groups = <<>> THEN arrangement
    ELSE ArrangeGroups(ArrangeGroup, Tail(groups),
                       Update(arrangement, ArrangeGroup(Head(groups)[2])))

HierarchicalLayout_arrange_resources(self, res, rels) ==
    LET hierarchy == HierarchicalLayout_build_hierarchy(res, rels)
    IN  IF ~hierarchy.ok THEN hierarchy
        ELSE LET levels == HierarchicalLayout_assign_levels(hierarchy.val)
                 groups == IF HierarchicalLayout_layout_config(self).group_by_resource_group
                           THEN HierarchicalLayout_group_by_resource_group(res)
                           ELSE <<<<"default", res>>>>
                 ArrangeGroup(group_resources) ==
                     HierarchicalLayout_arrange_group_hierarchically(
                         group_resources, levels, hierarchy.val)
             IN  Ok(ArrangeGroups(ArrangeGroup, groups, EmptyArrangement))

\* ---- CircularLayout ----

CircularLayout_layout_config(self) ==
    [ center_resource |-> Get(self.config, "center_resource", NoneVal),
      radius_increment |-> Get(self.config, "radius_increment", 1),
      group_similar |-> Get(self.config, "group_similar", TRUE) ]

\* connection_counts[...] += 1 for the ends of a relationship that are resources
RECURSIVE CountConnections(_, _)
CountConnections(connection_counts, rels) ==
    IF rels = <<>> THEN connection_counts
    ELSE LET rel == Head(rels)
             c1 == IF HasKey(connection_counts, rel.source_id)
                   THEN Put(connection_counts, rel.source_id,
                            Get(connection_counts, rel.source_id, 0) + 1)
                   ELSE connection_counts
             c2 == IF HasKey(c1, rel.target_id)
                   THEN Put(c1, rel.target_id, Get(c1, rel.target_id, 0) + 1)
                   ELSE c1
         IN  CountConnections(c2, Tail(rels))

RECURSIVE ZeroCounts(_, _)
ZeroCounts(res, items) ==
    IF res = <<>> THEN items ELSE ZeroCounts(Tail(res), Put(items, Head(res).id, 0))

\* max(items, key=lambda x: x[1]): the first item of the greatest count
MaxByCount(items) ==
    items[CHOOSE i \in DOMAIN items :
            /\ \A j \in DOMAIN items : items[j][2] <= items[i][2]
            /\ \A j \in 1..(i - 1) : items[j][2] < items[i][2]]

CircularLayout_find_center_resource(self, res, rels) ==
    LET center == CircularLayout_layout_config(self).center_resource
        connection_counts == CountConnections(ZeroCounts(res, <<>>), rels)
    IN  IF Truthy(center) THEN center.v[1]
        ELSE IF connection_counts # <<>> THEN MaxByCount(connection_counts)[1]
        ELSE IF res # <<>> THEN res[1].id ELSE ""

RECURSIVE AddConnections(_, _)
AddConnections(graph, rels) ==
    IF rels = <<>> THEN graph
    ELSE LET rel == Head(rels)
         IN  IF HasKey(graph, rel.source_id) /\ HasKey(graph, rel.target_id)
             THEN LET g1 == Put(graph, rel.source_id,
                                Append(Get(graph, rel.source_id, <<>>), rel.target_id))
                  IN  AddConnections(
                          Put(g1, rel.target_id, Append(Get(g1, rel.target_id, <<>>), rel.source_id)),
                          Tail(rels))
             ELSE AddConnections(graph, Tail(rels))

\* a connection graph that follows a relationship from source to target only
RECURSIVE AddConnectionsDirected(_, _)
AddConnectionsDirected(graph, rels) ==
    IF rels = <<>> THEN graph
    ELSE LET rel == Head(rels)
         IN  IF HasKey(graph, rel.source_id) /\ HasKey(graph, rel.target_id)
             THEN AddConnectionsDirected(
                      Put(graph, rel.source_id,
                          Append(Get(graph, rel.source_id, <<>>), rel.target_id)),
                      Tail(rels))
             ELSE AddConnectionsDirected(graph, Tail(rels))

CircularLayout_build_connection_graph_directed(res, rels) ==
    AddConnectionsDirected(DictOfIds(res, <<>>), rels)

CircularLayout_build_connection_graph(res, rels) == AddConnections(DictOfIds(res, <<>>), rels)

\* the two for loops of _assign_to_circles over one circle
RECURSIVE NextCircle(_, _, _, _)
NextCircle(connections, todo, visited, next_circle_resources) ==
    IF todo = <<>> THEN [visited |-> visited, next |-> next_circle_resources]
    ELSE LET connected == Head(todo)
         IN  IF connected \in visited
             THEN NextCircle(connections, Tail(todo), visited, next_circle_resources)
             ELSE NextCircle(connections, Tail(todo), visited \cup {connected},
                             Append(next_circle_resources, connected))

RECURSIVE AssignCircles(_, _, _)
AssignCircles(connections, circles, visited) ==
    LET current == circles[Len(circles)]
        todo == Concat([i \in DOMAIN current |-> Get(connections, current[i], <<>>)])
        round == NextCircle(connections, todo, visited, <<>>)
    IN  IF round.next = <<>> THEN circles
        ELSE AssignCircles(connections, Append(circles, round.next), round.visited)

\* circles[k] is element k + 1 of the result
CircularLayout_assign_to_circles(center, connections) ==
    AssignCircles(connections, <<<<center>>>>, {center})

\* radius * math.cos(angle), radius * math.sin(angle), as the term computed
Trig(radius, fn, num, den) == <<radius, fn, num, den>>

\* the angle (2 * 3.14159 * i) / total, in units of 2 * 3.14159
CircleAngle(i, total_in_circle) ==
    IF total_in_circle > 0 THEN <<i, total_in_circle>> ELSE <<0, 1>>

CircularLayout_arrange_circle(self, ids, circle_index, total_in_circle) ==
    LET radius == circle_index * CircularLayout_layout_config(self).radius_increment
        Attr(i) ==
            LET angle == IF i = 0 THEN <<0, 1>> ELSE CircleAngle(i, total_in_circle)
            IN  [ circle |-> circle_index, position |-> i, radius |-> radius, angle |-> angle,
                  x |-> IF circle_index = 0 THEN Trig(radius, "one", 0, 1)
                        ELSE Trig(radius, "cos", angle[1], angle[2]),
                  y |-> IF circle_index = 0 THEN Trig(radius, "zero", 0, 1)
                        ELSE Trig(radius, "sin", angle[1], angle[2]) ]
    IN  \* a later occurrence of an id in the list overwrites the earlier
        [id \in SeqToSet(ids) |->
            Attr((CHOOSE i \in DOMAIN ids :
                    ids[i] = id /\ \A j \in DOMAIN ids : ids[j] = id => j <= i) - 1)]

RECURSIVE ArrangeCircles(_, _, _, _)
ArrangeCircles(self, circles, k, arrangement) ==
    IF k > Len(circles) THEN arrangement
    ELSE ArrangeCircles(self, circles, k + 1,
             Update(arrangement,
                    CircularLayout_arrange_circle(self, circles[k], k - 1, Len(circles[k]))))

CircularLayout_arrange_resources(self, res, rels) ==
    LET center_resource == CircularLayout_find_center_resource(self, res, rels)
        connections == CircularLayout_build_connection_graph(res, rels)
        circles == CircularLayout_assign_to_circles(center_resource, connections)
    IN  Ok(ArrangeCircles(self, circles, 1, EmptyArrangement))

\* ---- ForceLayout ----

\* sum(1 for rel in relationships if rel.source_id == id or rel.target_id == id)
ConnectionCount(rels, id) ==
    Cardinality({i \in DOMAIN rels : rels[i].source_id = id \/ rels[i].target_id = id})

\* a force layout that carries state between calls: the offsets move with
\* the calls already made on the layout
ForceLayout_arrange_resources_carrying(self, res, rels) ==
    LET grid_size == CeilSqrt(Len(res))
        carried == IF lay.call = NoneVal THEN 0 ELSE 1
        Attr(i) ==
            LET connection_count == ConnectionCount(rels, res[i + 1].id) + carried
            IN  [ x |-> 10 * (i % grid_size) + 2 * ((connection_count % 3) - 1),
                  y |-> 10 * (i \div grid_size) + 2 * (((connection_count \div 3) % 3) - 1),
                  grid_position |-> i,
                  connections |-> connection_count ]
    IN  Ok([id \in {res[i].id : i \in DOMAIN res} |->
              Attr((CHOOSE i \in DOMAIN res :
                      res[i].id = id /\ \A j \in DOMAIN res : res[j].id = id => j <= i) - 1)])

\* x, y in tenths: col + (connection_count % 3 - 1) * 0.2
ForceLayout_arrange_resources(self, res, rels) ==
    LET grid_size == CeilSqrt(Len(res))
        Attr(i) ==
            LET connection_count == ConnectionCount(rels, res[i + 1].id)
            IN  [ x |-> 10 * (i % grid_size) + 2 * ((connection_count % 3) - 1),
                  y |-> 10 * (i \div grid_size) + 2 * (((connection_count \div 3) % 3) - 1),
                  grid_position |-> i,
                  connections |-> connection_count ]
    IN  Ok([id \in {res[i].id : i \in DOMAIN res} |->
              Attr((CHOOSE i \in DOMAIN res :
                      res[i].id = id /\ \A j \in DOMAIN res : res[j].id = id => j <= i) - 1)])

\* ---- GridLayout ----

\* an Optional[int]
IntVal(n) == [t |-> "int", v |-> n]

GridLayout_layout_config(self) ==
    [ columns |-> Get(self.config, "columns", NoneVal),
      group_by_type |-> Get(self.config, "group_by_type", TRUE),
      spacing |-> Get(self.config, "spacing", 1) ]

GridLayout_group_by_type(res) == GroupBy(get_category, res, <<>>)

\* `if columns:` takes neither None nor 0
GridLayout_calculate_columns(self, resource_count) ==
    LET columns == GridLayout_layout_config(self).columns
    IN  IF columns # NoneVal /\ columns.v # 0 THEN columns.v ELSE CeilSqrt(resource_count)

\* a grid that puts a whole group on its first row
GridLayout_arrange_group_in_one_row(self, res, start_row) ==
    LET Attr(i) == [ row |-> start_row, column |-> i,
                     grid_position |-> i, group |-> get_category(res[i + 1]) ]
    IN  [id \in {res[i].id : i \in DOMAIN res} |->
            Attr((CHOOSE i \in DOMAIN res :
                    res[i].id = id /\ \A j \in DOMAIN res : res[j].id = id => j <= i) - 1)]

GridLayout_arrange_group_in_grid(self, res, start_row) ==
    LET columns == GridLayout_calculate_columns(self, Len(res))
        Attr(i) == [ row |-> start_row + (i \div columns), column |-> i % columns,
                     grid_position |-> i, group |-> get_category(res[i + 1]) ]
    IN  [id \in {res[i].id : i \in DOMAIN res} |->
            Attr((CHOOSE i \in DOMAIN res :
                    res[i].id = id /\ \A j \in DOMAIN res : res[j].id = id => j <= i) - 1)]

RECURSIVE GridGroups(_, _, _, _)
GridGroups(self, groups, current_row, arrangement) ==
    IF groups = <<>> THEN arrangement
    ELSE LET group_resources == Head(groups)[2]
             columns == GridLayout_calculate_columns(self, Len(group_resources))
             rows_used == CeilDiv(Len(group_resources), columns)
         IN  GridGroups(self, Tail(groups), current_row + rows_used + 1,
                        Update(arrangement,
                               GridLayout_arrange_group_in_grid(self, group_resources, current_row)))

\* an empty group under no column count divides by zero: no list puts an
\* empty group into grouped_resources except the 'all' group of no resources
GridLayout_arrange_resources(self, res, rels) ==
    LET grouped_resources == IF GridLayout_layout_config(self).group_by_type
                             THEN GridLayout_group_by_type(res)
                             ELSE <<<<"all", res>>>>
    IN  IF \E i \in DOMAIN grouped_resources :
               GridLayout_calculate_columns(self, Len(grouped_resources[i][2])) = 0
        THEN Raise("ZeroDivisionError")
        ELSE Ok(GridGroups(self, grouped_resources, 0, EmptyArrangement))

\* ---- RadialLayout ----

RadialLayout_layout_config(self) ==
    [ center_resource |-> Get(self.config, "center_resource", NoneVal),
      angle_increment |-> Get(self.config, "angle_increment", 30),
      radius_base |-> Get(self.config, "radius_base", 2) ]

RadialLayout_find_center_resource(self, res, rels) ==
    LET center == RadialLayout_layout_config(self).center_resource
    IN  IF Truthy(center) THEN center.v[1]
        ELSE IF res # <<>> THEN res[1].id ELSE ""

RadialLayout_group_by_type(res) == GroupBy(get_category, res, <<>>)

\* an angle in degrees is the fraction <<num, den>>; the span of a group is
\* span[1] / span[2], the start of group k is start[1] / start[2]
RadialLayout_arrange_group_radially(self, res, start_angle, angle_span) ==
    LET radius == RadialLayout_layout_config(self).radius_base
        limit == RadialLayout_layout_config(self).angle_increment
        m == Len(res)
        \* min(angle_span / len(resources), angle_increment) over den * m
        den == angle_span[2] * m
        step == IF angle_span[1] < limit * den THEN angle_span[1] ELSE limit * den
        Attr(i) ==
            LET angle == <<start_angle[1] * m + i * step, den>>
            IN  [ x |-> Trig(radius, "cos", angle[1], angle[2]),
                  y |-> Trig(radius, "sin", angle[1], angle[2]),
                  radius |-> radius, angle |-> angle,
                  group |-> get_category(res[i + 1]), position |-> i ]
    IN  [id \in {res[i].id : i \in DOMAIN res} |->
            Attr((CHOOSE i \in DOMAIN res :
                    res[i].id = id /\ \A j \in DOMAIN res : res[j].id = id => j <= i) - 1)]

RECURSIVE RadialGroups(_, _, _, _)
RadialGroups(self, groups, k, arrangement) ==
    IF k > Len(groups) THEN arrangement
    ELSE RadialGroups(self, groups, k + 1,
             Update(arrangement,
                    RadialLayout_arrange_group_radially(
                        self, groups[k][2], <<360 * (k - 1), Len(groups)>>, <<360, Len(groups)>>)))

RadialLayout_arrange_resources(self, res, rels) ==
    LET center == RadialLayout_find_center_resource(self, res, rels)
        IsOther(r) == r.id # center
        other_resources == SelectSeqBy(IsOther, res)
        grouped == RadialLayout_group_by_type(other_resources)
        placed == center :> [ x |-> 0, y |-> 0, radius |-> 0, angle |-> 0, is_center |-> TRUE ]
    IN  Ok(RadialGroups(self, grouped, 1, placed))

\* ---- LayoutManager and the calls of arrange_resources ----

MaxLayoutResources == 3
MaxLayoutRelationships == 2

\* LayoutManager._register_default_layouts: every layout with no config
DefaultLayouts ==
    [ hierarchical |-> [config |-> <<>>], circular |-> [config |-> <<>>],
      force |-> [config |-> <<>>], grid |-> [config |-> <<>>], radial |-> [config |-> <<>>] ]

\* LayoutManager.register_layout of layouts constructed with a config
ConfiguredLayouts ==
    [ hierarchical |-> [config |-> <<<<"group_by_resource_group", FALSE>>>>],
      circular |-> [config |-> <<<<"center_resource", S("Z")>>>>],
      force |-> [config |-> <<<<"iterations", 10>>>>],
      grid |-> [config |-> <<<<"columns", IntVal(2)>>, <<"group_by_type", FALSE>>>>],
      radial |-> [config |-> <<<<"center_resource", S("B")>>>>] ]

\* a second configuration: a center that is a resource, one grid column
CenteredLayouts ==
    [ hierarchical |-> [config |-> <<>>],
      circular |-> [config |-> <<<<"center_resource", S("C")>>>>],
      force |-> [config |-> <<>>],
      grid |-> [config |-> <<<<"columns", IntVal(1)>>>>],
      radial |-> [config |-> <<<<"center_resource", S("Z")>>>>] ]

LayoutManagers == {DefaultLayouts, ConfiguredLayouts, CenteredLayouts}

LayoutResource(id, name, ty, rg) ==
    CloudResource([ id |-> id, name |-> name, resource_type |-> ty, provider |-> "AZURE",
                    region |-> S("westeurope"), resource_group |-> rg ]).val

LayoutResourcePool ==
    { LayoutResource("A", "vnet", "VIRTUAL_NETWORK", S("rg1")),
      LayoutResource("B", "vm2", "VIRTUAL_MACHINE", S("rg1")),
      LayoutResource("C", "data", "STORAGE_ACCOUNT", NoneVal),
      LayoutResource("D", "app", "VIRTUAL_MACHINE", S("rg2")) }

LayoutRelationship(source, target, kind) ==
    ResourceRelationship([source_id |-> source, target_id |-> target,
                          relationship_type |-> kind]).val

LayoutRelationshipPool ==
    { LayoutRelationship("A", "B", "CONTAINS"),
      LayoutRelationship("B", "C", "CONTAINS"),
      LayoutRelationship("C", "A", "CONNECTS_TO") }

SeqsUpTo(set, n) == UNION { [1..k -> set] : k \in 0..n }

\* resource lists with distinct ids, in every order
LayoutResourceLists ==
    { xs \in SeqsUpTo(LayoutResourcePool, MaxLayoutResources) :
        \A i, j \in DOMAIN xs : i # j => xs[i].id # xs[j].id }

LayoutRelationshipLists == SeqsUpTo(LayoutRelationshipPool, MaxLayoutRelationships)

\* lay.layouts is LayoutManager._layouts; lay.resources and lay.relationships
\* are the lists the caller holds; lay.call records the latest run of calls
\* of one layout: its first result, its latest result, and whether it was
\* called more than once
LayInit ==
    \E res \in LayoutResourceLists, rels \in LayoutRelationshipLists, m \in LayoutManagers :
        lay = [ layouts |-> m, resources |-> res, relationships |-> rels, call |-> NoneVal ]

get_layout(layout_name) == lay.layouts[layout_name]

Returned(layout_name, result) ==
    lay' = [lay EXCEPT !.call =
              IF lay.call # NoneVal /\ lay.call.layout = layout_name
              THEN [lay.call EXCEPT !.result = result, !.again = TRUE]
              ELSE [layout |-> layout_name, first |-> result, result |-> result,
                    again |-> FALSE]]

ArrangeHierarchical ==
    /\ Returned("hierarchical",
                HierarchicalLayout_arrange_resources(get_layout("hierarchical"),
                                                     lay.resources, lay.relationships))
    /\ UNCHANGED <<inv_vars, dep, ren, mer, thm, cfg, ext, lbl, gv, jobs>>
ArrangeCircular ==
    /\ Returned("circular",
                CircularLayout_arrange_resources(get_layout("circular"),
                                                 lay.resources, lay.relationships))
    /\ UNCHANGED <<inv_vars, dep, ren, mer, thm, cfg, ext, lbl, gv, jobs>>
ArrangeForce ==
    /\ Returned("force",
                ForceLayout_arrange_resources(get_layout("force"),
                                              lay.resources, lay.relationships))
    /\ UNCHANGED <<inv_vars, dep, ren, mer, thm, cfg, ext, lbl, gv, jobs>>
ArrangeGrid ==
    /\ Returned("grid",
                GridLayout_arrange_resources(get_layout("grid"),
                                             lay.resources, lay.relationships))
    /\ UNCHANGED <<inv_vars, dep, ren, mer, thm, cfg, ext, lbl, gv, jobs>>
ArrangeRadial ==
    /\ Returned("radial",
                RadialLayout_arrange_resources(get_layout("radial"),
                                               lay.resources, lay.relationships))
    /\ UNCHANGED <<inv_vars, dep, ren, mer, thm, cfg, ext, lbl, gv, jobs>>

LayNext ==
    \/ ArrangeHierarchical
    \/ ArrangeCircular
    \/ ArrangeForce
    \/ ArrangeGrid
    \/ ArrangeRadial

InitLayout == InvIdle /\ DepIdle /\ LayInit /\ RenIdle /\ RestIdle

SpecLayout == InitLayout /\ [][LayNext]_vars

\* ---- claims checked under SpecLayout ----

LayoutIds == {lay.resources[i].id : i \in DOMAIN lay.resources}

\* the sources of the Contains edges into a resource
Containers(id) ==
    { lay.relationships[i].source_id : i \in
        { j \in DOMAIN lay.relationships :
            /\ lay.relationships[j].relationship_type = "CONTAINS"
            /\ lay.relationships[j].target_id = id } }

\* C2: the hierarchical layout gives level 0 to every resource with no
\* incoming Contains edge, and level 1 to a resource whose one container is
\* such a level-0 resource (for A -Contains-> B: A level 0, B level 1).
C2_ContainedOneBelow ==
    (lay.call # NoneVal /\ lay.call.layout = "hierarchical" /\ lay.call.result.ok) =>
        \A id \in LayoutIds :
            /\ Containers(id) = {} => lay.call.result.val[id].level = 0
            /\ \A c \in LayoutIds :
                 (c # id /\ Containers(id) = {c} /\ Containers(c) = {}) =>
                     lay.call.result.val[id].level = 1

\* ---- the circular layout's center and rings ----

CircularCalled ==
    /\ lay.call # NoneVal /\ lay.call.layout = "circular" /\ lay.call.result.ok

NoCenterOverride ==
    ~Truthy(CircularLayout_layout_config(get_layout("circular")).center_resource)

\* the resources of ring 0 in the latest result
CenterIds == { id \in DOMAIN lay.call.result.val : lay.call.result.val[id].circle = 0 }

Incident(id) == ConnectionCount(lay.relationships, id)

\* C21: with no center override the circular layout's center is a resource
\* with the most incident relationships and, among the resources with that
\* many, the first in id order, whatever the order of the resource list.
C21_CenterFirstInIdOrder ==
    (CircularCalled /\ NoCenterOverride /\ lay.resources # <<>>) =>
        \A c \in CenterIds :
            /\ c \in LayoutIds
            /\ \A id \in LayoutIds :
                 /\ Incident(id) <= Incident(c)
                 /\ Incident(id) = Incident(c) => (id = c \/ StrLess(c, id))

\* the undirected graph of the relationships between resources of the list
Neighbours(id) ==
    { other \in LayoutIds :
        \E i \in DOMAIN lay.relationships :
            \/ lay.relationships[i].source_id = id /\ lay.relationships[i].target_id = other
            \/ lay.relationships[i].source_id = other /\ lay.relationships[i].target_id = id }

\* the resources at most k steps from the center
RECURSIVE WithinSteps(_, _)
WithinSteps(center, k) ==
    IF k = 0 THEN {center} \cap LayoutIds
    ELSE LET near == WithinSteps(center, k - 1)
         IN  near \cup UNION { Neighbours(id) : id \in near }

Reachable(center) == WithinSteps(center, Len(lay.resources))

Distance(center, id) ==
    CHOOSE k \in 0..Len(lay.resources) :
        /\ id \in WithinSteps(center, k)
        /\ \A j \in 0..(k - 1) : id \notin WithinSteps(center, j)

\* C22: in the circular layout's result the ring of every resource is its
\* breadth-first distance from the center in the undirected graph of all the
\* relationships, and a resource is in the result exactly when it can be
\* reached from the center.
C22_RingIsDistance ==
    CircularCalled =>
        LET center == CircularLayout_find_center_resource(get_layout("circular"),
                                                          lay.resources, lay.relationships)
        IN  \A id \in LayoutIds :
                /\ id \in DOMAIN lay.call.result.val <=> id \in Reachable(center)
                /\ id \in DOMAIN lay.call.result.val =>
                     lay.call.result.val[id].circle = Distance(center, id)

\* a circular result with a resource two rings out from the center
C22_TwoRingsOut ==
    /\ CircularCalled
    /\ \E id \in LayoutIds :
          id \in DOMAIN lay.call.result.val /\ lay.call.result.val[id].circle = 2

\* ---- the grid layout's cells ----

GridCalled == lay.call # NoneVal /\ lay.call.layout = "grid" /\ lay.call.result.ok

GridGroupOf(resource) ==
    IF GridLayout_layout_config(get_layout("grid")).group_by_type
    THEN get_category(resource) ELSE "all"

GridGroupNames == { GridGroupOf(lay.resources[i]) : i \in DOMAIN lay.resources }

GridGroupIds(g) ==
    { lay.resources[i].id : i \in { j \in DOMAIN lay.resources : GridGroupOf(lay.resources[j]) = g } }

\* a group's place among the groups: the place of its first resource
GridGroupFirst(g) ==
    CHOOSE i \in DOMAIN lay.resources :
        /\ GridGroupOf(lay.resources[i]) = g
        /\ \A j \in 1..(i - 1) : GridGroupOf(lay.resources[j]) # g

GridGroupRows(g) == { lay.call.result.val[id].row : id \in GridGroupIds(g) }

GridColumnCount(g) ==
    LET columns == GridLayout_layout_config(get_layout("grid")).columns
    IN  IF columns # NoneVal /\ columns.v # 0 THEN columns.v
        ELSE CeilSqrt(Cardinality(GridGroupIds(g)))

\* C23: in the grid layout's result no two resources have the same row and
\* column, every column is below the column count of the resource's group
\* (the configured count, else ceil(sqrt(group size))), and between the last
\* row of a group and the first row of the next group lies exactly one row.
C23_GridCells ==
    GridCalled =>
        LET cell == lay.call.result.val
        IN  /\ DOMAIN cell = LayoutIds
            /\ \A a, b \in LayoutIds :
                  a # b => <<cell[a].row, cell[a].column>> # <<cell[b].row, cell[b].column>>
            /\ \A i \in DOMAIN lay.resources :
                  /\ cell[lay.resources[i].id].column >= 0
                  /\ cell[lay.resources[i].id].column < GridColumnCount(GridGroupOf(lay.resources[i]))
            /\ \A g, h \in GridGroupNames :
                  ( /\ GridGroupFirst(g) < GridGroupFirst(h)
                    /\ ~\E m \in GridGroupNames :
                          /\ GridGroupFirst(g) < GridGroupFirst(m)
                          /\ GridGroupFirst(m) < GridGroupFirst(h) ) =>
                      \A top \in GridGroupRows(h) :
                          (\A r \in GridGroupRows(h) : top <= r) =>
                              \E bottom \in GridGroupRows(g) :
                                  /\ \A r \in GridGroupRows(g) : r <= bottom
                                  /\ top = bottom + 2

\* a grid result with a group of several rows followed by another group
C23_TwoGroupsSeveralRows ==
    /\ GridCalled
    /\ \E g, h \in GridGroupNames :
          /\ GridGroupFirst(g) < GridGroupFirst(h)
          /\ Cardinality(GridGroupRows(g)) >= 2

\* ---- the keys of a layout's result ----

\* C27: every key of the result of a layout is the id of a resource of the
\* list the layout was called with.
C27_KeysAreResourceIds ==
    (lay.call # NoneVal /\ lay.call.result.ok) => DOMAIN lay.call.result.val \subseteq LayoutIds

-----------------------------------------------------------------------------
(* Rendering engines.  ren holds one render call at a time: its arguments, *)
(* its position, the temporary paths on disk, the external processes it    *)
(* started and what it returned or raised.  An exception is a record of    *)
(* its type, its message and the converter output it carries.              *)

Error(type, message, diagnostic) ==
    [type |-> type, message |-> message, diagnostic |-> diagnostic]

\* the lists set by the three __init__ methods
supported_formats ==
    [ mermaid |-> <<"mermaid", "md">>, graphviz |-> <<"dot", "gv">>,
      image |-> <<"png", "svg", "pdf", "jpg", "jpeg">> ]

supported_themes ==
    [ mermaid |-> <<"professional", "dark", "light", "minimal", "colorful">>,
      graphviz |-> <<"professional", "dark", "light", "minimal", "colorful">>,
      image |-> <<"professional", "dark", "light", "minimal", "colorful">> ]

supported_layouts ==
    [ mermaid |-> <<"hierarchical", "flowchart", "graph", "mindmap", "timeline">>,
      graphviz |-> <<"hierarchical", "circular", "force", "grid", "radial">>,
      image |-> <<"hierarchical", "circular", "force", "grid", "radial">> ]

\* `x in list` for an Optional[str] x that is a str
InList(x, list) == \E i \in DOMAIN list : x = S(list[i])

\* VisualizationEngine.validate_options
validate_options(engine, output_format, theme, layout) ==
    IF ~InList(S(output_format), supported_formats[engine]) THEN FALSE
    ELSE IF Truthy(theme) /\ ~InList(theme, supported_themes[engine]) THEN FALSE
    ELSE IF Truthy(layout) /\ ~InList(layout, supported_layouts[engine]) THEN FALSE
    ELSE TRUE

\* `x or default`
OrDefault(x, default) == IF Truthy(x) THEN x ELSE S(default)

InvalidOptions == Error("ValueError", "Invalid rendering options", NoneVal)

\* MermaidEngine.render: the diagram text is kept as the engine, theme and
\* layout it is generated for
MermaidEngine_render(output_format, theme, layout) ==
    IF ~validate_options("mermaid", output_format, theme, layout) THEN Raise(InvalidOptions)
    ELSE LET theme1 == OrDefault(theme, "professional")
             layout1 == OrDefault(layout, "hierarchical")
         IN  IF ~InList(layout1, supported_layouts.mermaid)
             THEN Raise(Error("ValueError", "Unsupported layout", NoneVal))
             ELSE Ok([text |-> "mermaid", theme |-> theme1, layout |-> layout1])

\* GraphvizEngine.render
GraphvizEngine_render(output_format, theme, layout) ==
    IF ~validate_options("graphviz", output_format, theme, layout) THEN Raise(InvalidOptions)
    ELSE Ok([text |-> "dot", theme |-> OrDefault(theme, "professional"),
             layout |-> OrDefault(layout, "hierarchical")])

ImageEngine_should_use_mermaid(layout) ==
    layout \in {S("hierarchical"), S("flowchart"), S("mindmap"), S("timeline")}

ImageEngine_map_theme_to_mermaid(theme) ==
    CASE theme = S("professional") -> "default"
      [] theme = S("dark") -> "dark"
      [] theme = S("light") -> "base"
      [] theme = S("minimal") -> "neutral"
      [] theme = S("colorful") -> "forest"
      [] OTHER -> "default"

ImageEngine_get_graphviz_tool(layout) ==
    CASE layout = S("hierarchical") -> "dot"
      [] layout = S("circular") -> "circo"
      [] layout = S("force") -> "fdp"
      [] layout = S("grid") -> "neato"
      [] layout = S("radial") -> "twopi"
      [] OTHER -> "dot"

\* the default tool paths of ImageEngine.__init__
mermaid_cli_path == "mmdc"
graphviz_path == "dot"

\* the directory made by tempfile.TemporaryDirectory() and the files put in it
TempPaths == {"temp_dir", "input_file", "config_file", "output_file"}

\* a temporary directory that is removed only when the block returns
TemporaryDirectory_exit_on_return(disk, raised) ==
    IF raised THEN disk ELSE disk \ TempPaths

\* leaving `with tempfile.TemporaryDirectory()`: the directory and all in it
\* are removed, whether the block returned or raised
TemporaryDirectory_exit(disk, raised) == disk \ TempPaths

\* what an external process can do: exit 0, exit non-zero, outlive the
\* timeout, or not exist; stderr is what capture_output collected and output
\* is what it left in the output file
Exited(kind, stderr, output) == [kind |-> kind, stderr |-> stderr, output |-> output]

CheckOutcomes ==
    { Exited("exit0", Str(<<>>), NoneVal), Exited("nonzero", S("diag"), NoneVal),
      Exited("timeout", Str(<<>>), NoneVal), Exited("enoent", Str(<<>>), NoneVal) }

ConverterOutcomes ==
    { Exited("exit0", Str(<<>>), S("image")), Exited("exit0", S("diag"), S("image")),
      Exited("exit0", Str(<<>>), NoneVal),
      Exited("nonzero", S("diag"), NoneVal), Exited("nonzero", S("diag"), S("part")),
      Exited("timeout", S("diag"), NoneVal), Exited("timeout", S("diag"), S("part")),
      Exited("enoent", Str(<<>>), NoneVal) }

\* the arguments callers pass
FormatInputs == {"mermaid", "dot", "png", "gif"}
ThemeInputs == {NoneVal, S("dark"), S("neon"), Str(<<>>)}
LayoutInputs == {NoneVal, S("hierarchical"), S("circular"), S("spiral")}
SourceFormatInputs == {"auto", "mermaid", "graphviz"}
RenderSourceInputs == {"mermaid", "dot", "svg"}

\* ImageEngine.__init__: no text engine yet; puppeteer_config is from the config
RenInit ==
    \E puppeteer \in BOOLEAN :
        ren = [ pc |-> "idle", call |-> NoneVal, puppeteer_config |-> puppeteer,
                mermaid_engine |-> FALSE, graphviz_engine |-> FALSE,
                disk |-> {}, created |-> {}, started |-> <<>>, generated |-> 0,
                source |-> NoneVal, proc |-> NoneVal, outcome |-> NoneVal,
                cancelled |-> FALSE ]

CanCall == ren.pc \in {"idle", "done"}

\* a new call: nothing created, started or generated by it yet
Begin(call) ==
    [ren EXCEPT !.call = call, !.created = {}, !.started = <<>>, !.generated = 0,
                !.source = NoneVal, !.proc = NoneVal, !.outcome = NoneVal,
                !.cancelled = FALSE]

Done(r, outcome) == [r EXCEPT !.pc = "done", !.outcome = outcome]

\* a call of a text engine: the whole of MermaidEngine.render or GraphvizEngine.render
text_render(engine, output_format, theme, layout) ==
    /\ CanCall
    /\ LET call == [ entry |-> "render", engine |-> engine, output_format |-> output_format,
                     theme |-> theme, layout |-> layout, source_format |-> "auto",
                     path |-> engine, theme1 |-> OrDefault(theme, "professional"),
                     layout1 |-> OrDefault(layout, "hierarchical") ]
           result == IF engine = "mermaid" THEN MermaidEngine_render(output_format, theme, layout)
                     ELSE GraphvizEngine_render(output_format, theme, layout)
       IN  ren' = Done([Begin(call) EXCEPT !.generated = IF result.ok THEN 1 ELSE 0], result)

\* ImageEngine.render up to the choice of the rendering path
image_render(output_format, theme, layout, source_format) ==
    /\ CanCall
    /\ LET theme1 == OrDefault(theme, "professional")
           layout1 == OrDefault(layout, "hierarchical")
           path == IF source_format = "mermaid"
                      \/ (source_format = "auto" /\ ImageEngine_should_use_mermaid(layout1))
                   THEN "mermaid" ELSE "graphviz"
           call == [ entry |-> "render", engine |-> "image", output_format |-> output_format,
                     theme |-> theme, layout |-> layout, source_format |-> source_format,
                     path |-> path, theme1 |-> theme1, layout1 |-> layout1 ]
       IN  ren' = IF ~validate_options("image", output_format, theme, layout)
                  THEN Done(Begin(call), Raise(InvalidOptions))
                  ELSE [Begin(call) EXCEPT !.pc = "check"]

\* ImageEngine.render_from_source up to the choice of the converter
image_render_from_source(source_format, output_format, layout) ==
    /\ CanCall
    /\ LET path == IF source_format \in {"mermaid", "mmd"} THEN "mermaid" ELSE "graphviz"
           call == [ entry |-> "render_from_source", engine |-> "image",
                     output_format |-> output_format, theme |-> NoneVal, layout |-> layout,
                     source_format |-> source_format, path |-> path,
                     theme1 |-> NoneVal, layout1 |-> layout ]
       IN  ren' = IF source_format \in {"mermaid", "mmd", "dot", "gv", "graphviz"}
                  THEN [Begin(call) EXCEPT !.pc = "check",
                                           !.source = [text |-> source_format]]
                  ELSE Done(Begin(call),
                            Raise(Error("ValueError", "Unsupported source format", NoneVal)))

\* _check_mermaid_cli / _check_graphviz and the raise that follows a False
check_tool(result) ==
    /\ ren.pc = "check"
    /\ LET tool == IF ren.call.path = "mermaid" THEN mermaid_cli_path ELSE graphviz_path
           flag == IF ren.call.path = "mermaid" THEN "--version" ELSE "-V"
           r == [ren EXCEPT !.started = Append(@, <<tool, flag>>)]
       IN  ren' = IF result.kind = "exit0"
                  THEN [r EXCEPT !.pc = IF ren.call.entry = "render" THEN "source" ELSE "tempdir"]
                  ELSE Done(r, Raise(Error("RuntimeError", "not found", NoneVal)))

\* the text engine is made on first use and renders the source
generate_source ==
    /\ ren.pc = "source"
    /\ LET result == IF ren.call.path = "mermaid"
                     THEN MermaidEngine_render("mermaid", ren.call.theme1, ren.call.layout1)
                     ELSE GraphvizEngine_render("dot", ren.call.theme1, ren.call.layout1)
           r == IF ren.call.path = "mermaid" THEN [ren EXCEPT !.mermaid_engine = TRUE]
                ELSE [ren EXCEPT !.graphviz_engine = TRUE]
       IN  ren' = IF result.ok
                  THEN [r EXCEPT !.pc = "tempdir", !.source = result.val, !.generated = 1]
                  ELSE Done(r, result)

\* entering the with block: the directory, the input file and, for mmdc under
\* a puppeteer config, the config file
create_temp ==
    /\ ren.pc = "tempdir"
    /\ LET paths == {"temp_dir", "input_file"} \cup
                    (IF ren.call.path = "mermaid" /\ ren.call.entry = "render"
                        /\ ren.puppeteer_config
                     THEN {"config_file"} ELSE {})
       IN  ren' = [ren EXCEPT !.pc = "run", !.disk = @ \cup paths, !.created = @ \cup paths]

\* the command line of the converter
Command ==
    IF ren.call.path = "mermaid"
    THEN <<mermaid_cli_path, "-f", ren.call.output_format>> \o
         (IF Truthy(ren.call.theme1)
          THEN <<"-t", ImageEngine_map_theme_to_mermaid(ren.call.theme1)>> ELSE <<>>)
    ELSE <<ImageEngine_get_graphviz_tool(ren.call.layout1), "-T", ren.call.output_format>>

\* subprocess.run(cmd, capture_output=True, text=True, timeout=60, check=True)
run_converter(result) ==
    /\ ren.pc = "run"
    /\ result.kind = "enoent" => Command[1] \notin {mermaid_cli_path, graphviz_path}
    /\ LET written == IF result.output # NoneVal THEN {"output_file"} ELSE {}
       IN  ren' = [ren EXCEPT !.pc = "exit", !.proc = result,
                              !.started = Append(@, Command),
                              !.disk = @ \cup written, !.created = @ \cup written]

\* The request is cancelled (task.cancel() by another task's callback or
\* from another thread) while the thread is inside subprocess.run waiting
\* for the converter.  subprocess.run is a blocking call in a coroutine: no
\* await is reached before the call returns, no handler of CancelledError
\* exists, so the request is only marked.
cancel ==
    /\ ren.pc = "run"
    /\ ~ren.cancelled
    /\ ren' = [ren EXCEPT !.cancelled = TRUE]

\* what the with block of _render_from_mermaid / _render_from_graphviz
\* returns or raises
RenderResult(proc) ==
    CASE proc.kind = "exit0" ->
            IF proc.output # NoneVal THEN Ok(proc.output)
            ELSE Raise(Error("RuntimeError", "did not generate output file", NoneVal))
      [] proc.kind = "timeout" -> Raise(Error("RuntimeError", "execution timed out", NoneVal))
      [] proc.kind = "nonzero" -> Raise(Error("RuntimeError", "failed", proc.stderr))
      [] proc.kind = "enoent" -> Raise(Error("FileNotFoundError", "No such file", NoneVal))

\* what the with block of _render_source_with_mermaid / _render_source_with_graphviz
\* returns or raises: the exceptions of subprocess.run pass through
RenderSourceResult(proc) ==
    CASE proc.kind = "exit0" ->
            IF proc.output # NoneVal THEN Ok(proc.output)
            ELSE Raise(Error("RuntimeError", "did not generate output file", NoneVal))
      [] proc.kind = "timeout" -> Raise(Error("TimeoutExpired", "timed out", proc.stderr))
      [] proc.kind = "nonzero" -> Raise(Error("CalledProcessError", "non-zero exit", proc.stderr))
      [] proc.kind = "enoent" -> Raise(Error("FileNotFoundError", "No such file", NoneVal))

\* the rest of the with block and its exit
exit_with ==
    /\ ren.pc = "exit"
    /\ LET result == IF ren.call.entry = "render" THEN RenderResult(ren.proc)
                     ELSE RenderSourceResult(ren.proc)
       IN  ren' = Done([ren EXCEPT !.disk = TemporaryDirectory_exit(@, ~result.ok)], result)

RenderText ==
    /\ \E engine \in {"mermaid", "graphviz"}, f \in FormatInputs, t \in ThemeInputs,
          l \in LayoutInputs : text_render(engine, f, t, l)
    /\ UNCHANGED <<inv_vars, dep, lay, mer, thm, cfg, ext, lbl, gv, jobs>>
RenderImage ==
    /\ \E f \in FormatInputs, t \in ThemeInputs, l \in LayoutInputs, sf \in SourceFormatInputs :
          image_render(f, t, l, sf)
    /\ UNCHANGED <<inv_vars, dep, lay, mer, thm, cfg, ext, lbl, gv, jobs>>
RenderFromSource ==
    /\ \E sf \in RenderSourceInputs, l \in {NoneVal, S("circular")} :
          image_render_from_source(sf, "png", l)
    /\ UNCHANGED <<inv_vars, dep, lay, mer, thm, cfg, ext, lbl, gv, jobs>>
CheckTool == (\E result \in CheckOutcomes : check_tool(result)) /\ UNCHANGED <<inv_vars, dep, lay, mer, thm, cfg, ext, lbl, gv, jobs>>
GenerateSource == generate_source /\ UNCHANGED <<inv_vars, dep, lay, mer, thm, cfg, ext, lbl, gv, jobs>>
CreateTemp == create_temp /\ UNCHANGED <<inv_vars, dep, lay, mer, thm, cfg, ext, lbl, gv, jobs>>
RunConverter ==
    (\E result \in ConverterOutcomes : run_converter(result)) /\ UNCHANGED <<inv_vars, dep, lay, mer, thm, cfg, ext, lbl, gv, jobs>>
ExitWith == exit_with /\ UNCHANGED <<inv_vars, dep, lay, mer, thm, cfg, ext, lbl, gv, jobs>>
Cancel == cancel /\ UNCHANGED <<inv_vars, dep, lay, mer, thm, cfg, ext, lbl, gv, jobs>>

RenNext ==
    \/ RenderText
    \/ RenderImage
    \/ RenderFromSource
    \/ CheckTool
    \/ GenerateSource
    \/ CreateTemp
    \/ RunConverter
    \/ ExitWith
    \/ Cancel

InitRender == InvIdle /\ DepIdle /\ LayIdle /\ RenInit /\ RestIdle

SpecRender == InitRender /\ [][RenNext]_vars

\* ---- claims checked under SpecRender ----

\* C8: when a raster render call has ended, however it ended, none of the
\* temporary paths it created is on disk.
C8_NoTempFilesLeft ==
    ren.pc = "done" => ren.disk \cap TempPaths = {}

\* a raster call ended by the converter's timeout after input and partial
\* output were written
C8_TimedOutAndCleaned ==
    /\ ren.pc = "done"
    /\ ren.proc # NoneVal
    /\ ren.proc.kind = "timeout"
    /\ {"temp_dir", "input_file", "output_file"} \subseteq ren.created
    /\ ~ren.outcome.ok

\* C9: a raster render call returns bytes only after the converter exited 0
\* and wrote the output file; a converter that is missing, exits non-zero or
\* times out ends the call with the adapter's render error (RuntimeError),
\* which carries the diagnostic output captured from the converter.
C9_RenderErrorCarriesDiagnostics ==
    (ren.pc = "done" /\ ren.call.engine = "image" /\ ren.proc # NoneVal) =>
        /\ ren.outcome.ok =>
              /\ ren.proc.kind = "exit0"
              /\ ren.proc.output # NoneVal
              /\ ren.outcome.val = ren.proc.output
        /\ ren.proc.kind \in {"nonzero", "timeout", "enoent"} =>
              /\ ~ren.outcome.ok
              /\ ren.outcome.err.type = "RuntimeError"
              /\ Truthy(ren.proc.stderr) => ren.outcome.err.diagnostic = ren.proc.stderr

\* C10: a render call of any engine with a theme name outside the engine's
\* supported themes raises the validation error (ValueError) and has
\* generated no diagram text, created no temporary path and started no
\* external process.
C10_UnsupportedThemeRejected ==
    ( /\ ren.pc = "done"
      /\ ren.call.entry = "render"
      /\ ren.call.theme # NoneVal
      /\ ~InList(ren.call.theme, supported_themes[ren.call.engine]) ) =>
        /\ ~ren.outcome.ok
        /\ ren.outcome.err.type = "ValueError"
        /\ ren.generated = 0
        /\ ren.created = {}
        /\ ren.started = <<>>

\* C11: a raster render call that fails because a format, theme or layout
\* is unsupported (by the raster engine or by the text engine it delegates
\* to) has started no external process and created no temporary path.
C11_RejectedBeforeWork ==
    ( /\ ren.pc = "done"
      /\ ren.call.engine = "image"
      /\ ren.call.entry = "render"
      /\ ~ren.outcome.ok
      /\ ren.outcome.err.type = "ValueError" ) =>
        /\ ren.started = <<>>
        /\ ren.created = {}

\* C15: a raster render call that was cancelled while its converter process
\* was running ends with that process terminated before its own exit and
\* with no bytes returned.
C15_CancelTerminatesConverter ==
    ( /\ ren.pc = "done"
      /\ ren.cancelled
      /\ ren.proc # NoneVal
      /\ ren.proc.kind # "enoent" ) =>
        /\ ren.proc.kind \notin {"exit0", "nonzero"}
        /\ ~ren.outcome.ok

-----------------------------------------------------------------------------
(* MermaidEngine: the diagram text.  A text is the sequence of its lines, *)
(* a line the sequence of its pieces; a resource name is given character  *)
(* by character, and the double quote is the piece Quote wherever it      *)
(* comes from.                                                            *)

Quote == "\""

\* MermaidEngine.__init__ with no config
MermaidConfig ==
    [ max_label_length |-> 20, include_resource_types |-> TRUE, include_regions |-> TRUE,
      group_by_resource_group |-> TRUE, show_relationships |-> TRUE ]

\* f"node{n}" and str(n)
NodeNames == <<"node1", "node2", "node3", "node4", "node5", "node6", "node7", "node8",
               "node9", "node10", "node11", "node12">>
IntText == <<"0", "1", "2", "3", "4", "5", "6">>
ToText(n) == IntText[n + 1]

\* sep.join(parts)
RECURSIVE Join(_, _)
Join(sep, parts) ==
    IF parts = <<>> THEN <<>>
    ELSE IF Len(parts) = 1 THEN parts[1]
    ELSE parts[1] \o <<sep>> \o Join(sep, Tail(parts))

\* text[:n]: a negative n counts from the end
PySliceTo(text, n) ==
    IF n >= 0 THEN SubSeq(text, 1, IF n < Len(text) THEN n ELSE Len(text))
    ELSE SubSeq(text, 1, IF Len(text) + n > 0 THEN Len(text) + n ELSE 0)

Ellipsis == <<".", ".", ".">>

\* _truncate_label of an engine whose max_label_length is given
truncate_label(max_label_length, text) ==
    IF Len(text) <= max_label_length THEN text
    ELSE PySliceTo(text, max_label_length - 3) \o Ellipsis

MermaidEngine_truncate_label(text) == truncate_label(MermaidConfig.max_label_length, text)

MermaidEngine_create_resource_label(resource) ==
    LET name == MermaidEngine_truncate_label(resource.name)
        parts == << name >>
                 \o (IF MermaidConfig.include_resource_types
                     THEN << <<"(", get_category(resource), ")">> >> ELSE <<>>)
                 \o (IF MermaidConfig.include_regions /\ Truthy(resource.region)
                     THEN << <<"[">> \o resource.region.v \o <<"]">> >> ELSE <<>>)
    IN  Join("<br/>", parts)

MermaidEngine_get_node_shape(resource, style) ==
    LET label == MermaidEngine_create_resource_label(resource)
        category == get_category(resource)
    IN  IF style = "flowchart"
        THEN CASE category = "Compute" -> <<"[", Quote>> \o label \o <<Quote, "]">>
               [] category = "Storage" -> <<"[", "(", Quote>> \o label \o <<Quote, ")", "]">>
               [] category = "Networking" -> <<"{", Quote>> \o label \o <<Quote, "}">>
               [] category = "Database" -> <<"[", "(", Quote>> \o label \o <<Quote, ")", "]">>
               [] category = "Security" -> <<"{", "{", Quote>> \o label \o <<Quote, "}", "}">>
               [] category = "Management" -> <<"[", "(", Quote>> \o label \o <<Quote, ")", "]">>
               [] category = "Other" -> <<"[", Quote>> \o label \o <<Quote, "]">>
               [] OTHER -> <<"[", Quote>> \o label \o <<Quote, "]">>
        ELSE CASE category = "Compute" -> <<"[">> \o label \o <<"]">>
               [] category = "Storage" -> <<"(">> \o label \o <<")">>
               [] category = "Networking" -> <<"{">> \o label \o <<"}">>
               [] category = "Database" -> <<"(">> \o label \o <<")">>
               [] category = "Security" -> <<"{", "{">> \o label \o <<"}", "}">>
               [] category = "Management" -> <<"(">> \o label \o <<")">>
               [] category = "Other" -> <<"[">> \o label \o <<"]">>
               [] OTHER -> <<"[", Quote>> \o label \o <<Quote, "]">>

\* the engine's two fields that render resets and the generators write
FreshIds == [node_id_counter |-> 0, node_id_map |-> <<>>]

\* MermaidEngine._get_node_id: the fields after the call, and the id returned;
\* a key is the sequence of the pieces of the str
MermaidEngine_get_node_id(ids, key) ==
    LET ids1 == IF ~HasKey(ids.node_id_map, key)
                THEN [node_id_counter |-> ids.node_id_counter + 1,
                      node_id_map |-> Put(ids.node_id_map, key, NodeNames[ids.node_id_counter + 1])]
                ELSE ids
    IN  [ids |-> ids1, node_id |-> Get(ids1.node_id_map, key, NoneVal)]

MermaidEngine_get_existing_node_id(ids, key) == Get(ids.node_id_map, key, NoneVal)

\* MermaidEngine._create_resource_node: the fields after the call and the line
MermaidEngine_create_resource_node(ids, resource, indent, style) ==
    LET got == MermaidEngine_get_node_id(ids, <<resource.id>>)
        label == MermaidEngine_create_resource_label(resource)
        shape == MermaidEngine_get_node_shape(resource, style)
    IN  [ ids |-> got.ids,
          line |-> IF style = "graph"
                   THEN <<indent, got.node_id, "[">> \o label \o <<"]">>
                   ELSE <<indent, got.node_id>> \o shape ]

MermaidEngine_get_edge_style ==
    Table({ <<"CONTAINS", "-->">>, <<"CONNECTS_TO", "-.->">>, <<"DEPENDS_ON", "==>">>,
            <<"MANAGED_BY", "-->">>, <<"SECURED_BY", "-.->">>, <<"ROUTES_TO", "-.->">>,
            <<"REPLICATES_TO", "==>">>, <<"BACKS_UP_TO", "==>">> })

\* ResourceRelationship.get_edge_label; each label is shorter than 20
\* characters
get_edge_label ==
    Table({ <<"CONTAINS", "contains">>, <<"CONNECTS_TO", "connects to">>,
            <<"DEPENDS_ON", "depends on">>, <<"MANAGED_BY", "managed by">>,
            <<"SECURED_BY", "secured by">>, <<"ROUTES_TO", "routes to">>,
            <<"REPLICATES_TO", "replicates to">>, <<"BACKS_UP_TO", "backs up to">> })

\* MermaidEngine._create_relationship_edge: the edge text, or None (a node id
\* is never the empty str)
MermaidEngine_create_relationship_edge(ids, relationship) ==
    LET source_id == MermaidEngine_get_existing_node_id(ids, <<relationship.source_id>>)
        target_id == MermaidEngine_get_existing_node_id(ids, <<relationship.target_id>>)
    IN  IF \/ ~HasKey(ids.node_id_map, <<relationship.source_id>>)
           \/ ~HasKey(ids.node_id_map, <<relationship.target_id>>)
        THEN NoneVal
        ELSE Str(<<source_id, " ", MermaidEngine_get_edge_style[relationship.relationship_type],
                   "|", get_edge_label[relationship.relationship_type], "|", " ", target_id>>)

\* resource.resource_group or "No Resource Group"
GroupNameOf(resource) ==
    IF Truthy(resource.resource_group) THEN resource.resource_group.v ELSE <<"No Resource Group">>

MermaidEngine_group_resources_by_resource_group(rs) == GroupBy(GroupNameOf, rs, <<>>)

\* The statements of a generator, in the order it runs them: appending a
\* fixed line, opening a resource-group subgraph, adding a node, closing the
\* subgraph, adding an edge.
LineItem(line) == [op |-> "line", line |-> line]
NodeItem(resource, indent, style) ==
    [op |-> "node", resource |-> resource, indent |-> indent, style |-> style]
EdgeItem(relationship) == [op |-> "edge", relationship |-> relationship]

RECURSIVE NodeItems(_, _, _)
NodeItems(rs, indent, style) ==
    IF rs = <<>> THEN <<>>
    ELSE <<NodeItem(Head(rs), indent, style)>> \o NodeItems(Tail(rs), indent, style)

RECURSIVE EdgeItems(_)
EdgeItems(rels) ==
    IF rels = <<>> THEN <<>> ELSE <<EdgeItem(Head(rels))>> \o EdgeItems(Tail(rels))

\* the loop over resource_groups.items()
RECURSIVE SubgraphItems(_)
SubgraphItems(groups) ==
    IF groups = <<>> THEN <<>>
    ELSE LET rg_name == Head(groups)[1]
             rs == Head(groups)[2]
         IN  (IF rg_name # <<>> /\ rs # <<>>
              THEN <<[op |-> "subgraph", rg_name |-> rg_name]>>
                   \o NodeItems(rs, "        ", "flowchart")
                   \o <<LineItem(<<"    end">>)>>
              ELSE <<>>)
             \o SubgraphItems(Tail(groups))

\* the "Add relationships" block shared by the three generators
RelationshipItems(inv) ==
    IF MermaidConfig.show_relationships /\ inv.relationships # <<>>
    THEN <<LineItem(<<>>), LineItem(<<"    %% Relationships">>)>>
         \o EdgeItems(inv.relationships)
    ELSE <<>>

MermaidEngine_generate_hierarchical_diagram(inv) ==
    <<LineItem(<<"flowchart ", "TD">>)>>
    \o (IF MermaidConfig.group_by_resource_group
        THEN SubgraphItems(MermaidEngine_group_resources_by_resource_group(inv.resources))
        ELSE NodeItems(inv.resources, "    ", "flowchart"))
    \o RelationshipItems(inv)

MermaidEngine_generate_flowchart_diagram(inv) ==
    <<LineItem(<<"flowchart ", "LR">>)>>
    \o NodeItems(inv.resources, "    ", "flowchart")
    \o RelationshipItems(inv)

MermaidEngine_generate_graph_diagram(inv) ==
    <<LineItem(<<"graph TD">>)>>
    \o NodeItems(inv.resources, "    ", "graph")
    \o RelationshipItems(inv)

\* the dispatch of render on the layout, for the three layouts that use the
\* node ids
GeneratorItems(inv, layout) ==
    CASE layout = S("hierarchical") -> MermaidEngine_generate_hierarchical_diagram(inv)
      [] layout = S("flowchart") -> MermaidEngine_generate_flowchart_diagram(inv)
      [] layout = S("graph") -> MermaidEngine_generate_graph_diagram(inv)

\* one statement of a generator: the engine's fields and the lines after it
GeneratorStep(ids, lines, item) ==
    CASE item.op = "line" -> [ids |-> ids, lines |-> Append(lines, item.line)]
      [] item.op = "subgraph" ->
            LET got == MermaidEngine_get_node_id(ids, <<"rg_">> \o item.rg_name)
            IN  [ ids |-> got.ids,
                  lines |-> Append(lines, <<"    subgraph ", got.node_id, "[", Quote>>
                                          \o item.rg_name \o <<Quote, "]">>) ]
      [] item.op = "node" ->
            LET made == MermaidEngine_create_resource_node(ids, item.resource, item.indent, item.style)
            IN  [ids |-> made.ids, lines |-> Append(lines, made.line)]
      [] item.op = "edge" ->
            LET rel_def == MermaidEngine_create_relationship_edge(ids, item.relationship)
            IN  [ ids |-> ids,
                  lines |-> IF Truthy(rel_def) THEN Append(lines, <<"    ">> \o rel_def.v)
                            ELSE lines ]

\* a generator run from its first statement to its last with nothing in
\* between
RECURSIVE RunGenerator(_, _, _)
RunGenerator(ids, lines, items) ==
    IF items = <<>> THEN [ids |-> ids, lines |-> lines]
    ELSE LET next == GeneratorStep(ids, lines, Head(items))
         IN  RunGenerator(next.ids, next.lines, Tail(items))

\* MermaidEngine._apply_theme_styling: a blank line and the theme's block of
\* classDef lines, kept as one line naming the theme
MermaidEngine_apply_theme_styling(diagram, theme) ==
    LET styled == IF InList(theme, supported_themes.mermaid) THEN theme.v ELSE <<"professional">>
    IN  diagram \o << <<>>, <<"    %% ">> \o styled \o <<" theme styling and classDefs">> >>

\* MermaidEngine._add_metadata_comments
MermaidEngine_add_metadata_comments(diagram, inv) ==
    << <<"%% CloudViz Generated Diagram">>,
       <<"%% Generated at: ">> \o isoformat(inv.extraction_time).v,
       <<"%% Resource count: ", ToText(Len(inv.resources))>>,
       <<"%% Relationship count: ", ToText(Len(inv.relationships))>> >>
    \o (IF inv.provider # NoneVal
        THEN << <<"%% Provider: ", CloudProviderValue[inv.provider.v[1]]>> >> ELSE <<>>)
    \o (IF inv.extraction_scope # NoneVal
        THEN << <<"%% Scope: ", ExtractionScopeValue[inv.extraction_scope.v[1]]>> >>
             \o (IF Truthy(inv.scope_identifier)
                 THEN << <<"%% Scope ID: ">> \o inv.scope_identifier.v >> ELSE <<>>)
        ELSE <<>>)
    \o diagram

\* str.encode('utf-8')
Encode(text) == [t |-> "bytes", v |-> text]

\* the statements of render after the generator returned
RenderReturn(lines, theme, inv) ==
    Encode(MermaidEngine_add_metadata_comments(MermaidEngine_apply_theme_styling(lines, theme),
                                               inv))

\* MermaidEngine.render run from its first statement to its last on an engine
\* no other call touches
RenderAlone(inv, output_format, theme, layout) ==
    IF ~validate_options("mermaid", output_format, theme, layout) THEN Raise(InvalidOptions)
    ELSE LET theme1 == OrDefault(theme, "professional")
             layout1 == OrDefault(layout, "hierarchical")
         IN  Ok(RenderReturn(RunGenerator(FreshIds, <<>>, GeneratorItems(inv, layout1)).lines,
                             theme1, inv))

-----------------------------------------------------------------------------
(* One MermaidEngine and two render calls on it.  render is a coroutine    *)
(* with no lock around the engine's fields; two calls that run in parallel *)
(* (one per thread, each on its own event loop) interleave statement by    *)
(* statement, a statement of a generator being one pass of its loop.       *)

MaxMermaidResources == 2
MaxMermaidRelationships == 1

Callers == {"first", "second"}

LongName == [i \in 1..21 |-> "x"]

MermaidResourcePool ==
    { [ id |-> "r1", name |-> <<"v", "m">>, resource_type |-> "VIRTUAL_MACHINE",
        region |-> S("eastus"), resource_group |-> S("app") ],
      [ id |-> "r2", name |-> <<"s", "a", "y", " ", Quote, "h", "i", Quote>>,
        resource_type |-> "STORAGE_ACCOUNT", region |-> NoneVal, resource_group |-> S("app") ],
      [ id |-> "r3", name |-> LongName, resource_type |-> "KEY_VAULT",
        region |-> NoneVal, resource_group |-> NoneVal ] }

MermaidRelationshipPool ==
    { [source_id |-> "r1", target_id |-> "r2", relationship_type |-> "CONTAINS"],
      [source_id |-> "r2", target_id |-> "r3", relationship_type |-> "DEPENDS_ON"] }

MermaidInventories ==
    { [ resources |-> rs, relationships |-> rels,
        extraction_time |-> DateTime(0, 0, FALSE), provider |-> S("AZURE"),
        extraction_scope |-> S("SUBSCRIPTION"), scope_identifier |-> S("sub1") ] :
      rs \in { xs \in SeqsUpTo(MermaidResourcePool, MaxMermaidResources) :
                 \A i, j \in DOMAIN xs : i # j => xs[i].id # xs[j].id },
      rels \in SeqsUpTo(MermaidRelationshipPool, MaxMermaidRelationships) }

\* (theme, layout) arguments: the defaults, two supported pairs, and a layout
\* the engine does not support
MermaidOptions ==
    { [theme |-> NoneVal, layout |-> NoneVal],
      [theme |-> S("dark"), layout |-> S("flowchart")],
      [theme |-> NoneVal, layout |-> S("graph")],
      [theme |-> NoneVal, layout |-> S("circular")] }

NoCall == [pc |-> "idle"]

MerInit ==
    mer \in { [ ids |-> FreshIds, inv |-> i, calls |-> [c \in Callers |-> NoCall] ] :
              i \in MermaidInventories }

\* render up to and including "Reset state"
render_begin(c, theme, layout) ==
    /\ mer.calls[c].pc = "idle"
    /\ LET args == [theme |-> theme, layout |-> layout]
       IN  IF ~validate_options("mermaid", "mermaid", theme, layout)
           THEN mer' = [mer EXCEPT !.calls[c] =
                            [pc |-> "done", args |-> args, outcome |-> Raise(InvalidOptions)]]
           ELSE LET theme1 == OrDefault(theme, "professional")
                    layout1 == OrDefault(layout, "hierarchical")
                IN  mer' = [mer EXCEPT !.ids = FreshIds,
                                       !.calls[c] =
                                          [ pc |-> "generate", args |-> args, theme |-> theme1,
                                            todo |-> GeneratorItems(mer.inv, layout1),
                                            lines |-> <<>> ]]

\* the next statement of the generator the call is in
generate_step(c) ==
    /\ mer.calls[c].pc = "generate"
    /\ mer.calls[c].todo # <<>>
    /\ LET call == mer.calls[c]
           next == GeneratorStep(mer.ids, call.lines, Head(call.todo))
       IN  mer' = [mer EXCEPT !.ids = next.ids,
                              !.calls[c] = [call EXCEPT !.lines = next.lines,
                                                        !.todo = Tail(call.todo)]]

\* the generator returned: styling, comments, encode, return
render_return(c) ==
    /\ mer.calls[c].pc = "generate"
    /\ mer.calls[c].todo = <<>>
    /\ LET call == mer.calls[c]
       IN  mer' = [mer EXCEPT !.calls[c] =
                       [ pc |-> "done", args |-> call.args,
                         outcome |-> Ok(RenderReturn(call.lines, call.theme, mer.inv)) ]]

MerFrame == UNCHANGED <<inv_vars, dep, lay, ren, thm, cfg, ext, lbl, gv, jobs>>

RenderBegin == (\E c \in Callers, o \in MermaidOptions : render_begin(c, o.theme, o.layout)) /\ MerFrame
GenerateStep == (\E c \in Callers : generate_step(c)) /\ MerFrame
RenderReturns == (\E c \in Callers : render_return(c)) /\ MerFrame

MerNext == RenderBegin \/ GenerateStep \/ RenderReturns

InitMermaid == InvIdle /\ DepIdle /\ LayIdle /\ RenIdle /\ MerInit /\ ThmIdle /\ CfgIdle /\ ExtIdle /\ NewIdle

SpecMermaid == InitMermaid /\ [][MerNext]_vars

\* a double quote of a line that delimits a label: the first of the line
\* right after an opening bracket, or the last right before a closing one
Delimits(line, k) ==
    \/ /\ k > 1
       /\ line[k - 1] \in {"[", "(", "{"}
       /\ \A j \in 1..(k - 1) : line[j] # Quote
    \/ /\ k < Len(line)
       /\ line[k + 1] \in {"]", ")", "}"}
       /\ \A j \in (k + 1)..Len(line) : line[j] # Quote

\* C12: in the text a render call returns, a double quote appears only as
\* the delimiter of a label: a double quote of a resource name never
\* appears bare inside the label.
C12_QuotesEscaped ==
    \A c \in Callers :
        (mer.calls[c].pc = "done" /\ mer.calls[c].outcome.ok) =>
            \A i \in DOMAIN mer.calls[c].outcome.val.v :
                LET line == mer.calls[c].outcome.val.v[i]
                IN  \A k \in DOMAIN line : line[k] = Quote => Delimits(line, k)

\* C14: a render call that ran while another call was running on the same
\* engine returns what it returns when it runs alone.
C14_SameAsAlone ==
    \A c \in Callers :
        mer.calls[c].pc = "done" =>
            mer.calls[c].outcome =
                RenderAlone(mer.inv, "mermaid", mer.calls[c].args.theme, mer.calls[c].args.layout)

-----------------------------------------------------------------------------
(* Themes: the five registered palettes and the two colour lookups.        *)

\* ColorPalette.__post_init__ on the constructor's arguments
ColorPalette_post_init(colors) ==
    [colors EXCEPT
        !.compute = IF colors.compute = "" THEN colors.primary ELSE colors.compute,
        !.storage = IF colors.storage = "" THEN colors.secondary ELSE colors.storage,
        !.networking = IF colors.networking = "" THEN colors.accent ELSE colors.networking,
        !.database = IF colors.database = "" THEN colors.warning ELSE colors.database,
        !.security = IF colors.security = "" THEN colors.error ELSE colors.security,
        !.management = IF colors.management = "" THEN colors.info ELSE colors.management,
        !.other = IF colors.other = "" THEN colors.foreground ELSE colors.other]

\* the ColorPalette(...) call of each theme class
ThemeColors ==
    [ professional |->
        [ primary |-> "#0078d4", secondary |-> "#00bcf2", accent |-> "#7fba00",
          background |-> "#ffffff", foreground |-> "#323130", success |-> "#107c10",
          warning |-> "#ff8c00", error |-> "#d13438", info |-> "#5c2d91",
          compute |-> "#0078d4", storage |-> "#00bcf2", networking |-> "#7fba00",
          database |-> "#ff6c00", security |-> "#5c2d91", management |-> "#68217a",
          other |-> "#737373" ],
      dark |->
        [ primary |-> "#4fc3f7", secondary |-> "#81c784", accent |-> "#ffb74d",
          background |-> "#1a202c", foreground |-> "#e2e8f0", success |-> "#4caf50",
          warning |-> "#ff9800", error |-> "#f44336", info |-> "#2196f3",
          compute |-> "#2d3748", storage |-> "#2c5282", networking |-> "#276749",
          database |-> "#9c4221", security |-> "#553c9a", management |-> "#702459",
          other |-> "#4a5568" ],
      light |->
        [ primary |-> "#3182ce", secondary |-> "#38b2ac", accent |-> "#38a169",
          background |-> "#ffffff", foreground |-> "#2d3748", success |-> "#38a169",
          warning |-> "#dd6b20", error |-> "#e53e3e", info |-> "#3182ce",
          compute |-> "#ebf8ff", storage |-> "#e6fffa", networking |-> "#f0fff4",
          database |-> "#fffaf0", security |-> "#faf5ff", management |-> "#fdf2f8",
          other |-> "#f7fafc" ],
      minimal |->
        [ primary |-> "#374151", secondary |-> "#6b7280", accent |-> "#9ca3af",
          background |-> "#ffffff", foreground |-> "#374151", success |-> "#374151",
          warning |-> "#6b7280", error |-> "#374151", info |-> "#9ca3af",
          compute |-> "#f9fafb", storage |-> "#f9fafb", networking |-> "#f9fafb",
          database |-> "#f9fafb", security |-> "#f9fafb", management |-> "#f9fafb",
          other |-> "#f9fafb" ],
      colorful |->
        [ primary |-> "#e74c3c", secondary |-> "#3498db", accent |-> "#2ecc71",
          background |-> "#ffffff", foreground |-> "#2c3e50", success |-> "#27ae60",
          warning |-> "#f39c12", error |-> "#e74c3c", info |-> "#3498db",
          compute |-> "#ff6b6b", storage |-> "#4ecdc4", networking |-> "#45b7d1",
          database |-> "#f9ca24", security |-> "#6c5ce7", management |-> "#fd79a8",
          other |-> "#78e08f" ] ]

\* ThemeManager._register_default_themes
ThemeNames == DOMAIN ThemeColors

\* the theme_config property: built on first use, then kept
theme_config(name, kept) ==
    IF kept = NoneVal
    THEN [name |-> name, colors |-> ColorPalette_post_init(ThemeColors[name])]
    ELSE kept

\* a lookup whose dict.get has no default: a missing key gives no colour
get_resource_color_no_default(colors, resource_category) ==
    LET category_map ==
            << <<"Compute", colors.compute>>, <<"Storage", colors.storage>>,
               <<"Networking", colors.networking>>, <<"Database", colors.database>>,
               <<"Security", colors.security>>, <<"Management", colors.management>>,
               <<"Other", colors.other>> >>
    IN  Get(category_map, resource_category, "")

\* BaseTheme.get_resource_color
get_resource_color(colors, resource_category) ==
    LET category_map ==
            << <<"Compute", colors.compute>>, <<"Storage", colors.storage>>,
               <<"Networking", colors.networking>>, <<"Database", colors.database>>,
               <<"Security", colors.security>>, <<"Management", colors.management>>,
               <<"Other", colors.other>> >>
    IN  Get(category_map, resource_category, colors.other)

\* BaseTheme.get_relationship_color
get_relationship_color(colors, relationship_type) ==
    LET type_map ==
            << <<"CONTAINS", colors.primary>>, <<"CONNECTS_TO", colors.accent>>,
               <<"DEPENDS_ON", colors.warning>>, <<"MANAGED_BY", colors.secondary>>,
               <<"SECURED_BY", colors.error>>, <<"ROUTES_TO", colors.success>>,
               <<"REPLICATES_TO", colors.info>>, <<"BACKS_UP_TO", colors.info>> >>
    IN  Get(type_map, relationship_type, colors.foreground)

\* the seven categories (get_category never returns "Database", the lookup
\* has it) and the eight relationship kinds
ResourceCategories ==
    {"Compute", "Storage", "Networking", "Database", "Security", "Management", "Other"}

\* arguments of the lookups: the known strings, the values of the kinds,
\* the empty str and strings that are no category and no kind
CategoryInputs == ResourceCategories \cup {"compute", "", "Unknown"}
RelationshipKindInputs ==
    RelationshipType \cup {RelationshipTypeValue[k] : k \in RelationshipType} \cup {"", "OWNS"}

ThmInit == thm = [configs |-> [n \in ThemeNames |-> NoneVal], last |-> NoneVal]

lookup_resource_color(name, resource_category) ==
    LET config == theme_config(name, thm.configs[name])
    IN  thm' = [ configs |-> [thm.configs EXCEPT ![name] = config],
                 last |-> [ theme |-> name, lookup |-> "resource", arg |-> resource_category,
                            color |-> get_resource_color(config.colors, resource_category) ] ]

lookup_relationship_color(name, relationship_type) ==
    LET config == theme_config(name, thm.configs[name])
    IN  thm' = [ configs |-> [thm.configs EXCEPT ![name] = config],
                 last |-> [ theme |-> name, lookup |-> "relationship", arg |-> relationship_type,
                            color |-> get_relationship_color(config.colors, relationship_type) ] ]

ThmFrame == UNCHANGED <<inv_vars, dep, lay, ren, mer, cfg, ext, lbl, gv, jobs>>

GetResourceColor ==
    (\E n \in ThemeNames, c \in CategoryInputs : lookup_resource_color(n, c)) /\ ThmFrame
GetRelationshipColor ==
    (\E n \in ThemeNames, k \in RelationshipKindInputs : lookup_relationship_color(n, k)) /\ ThmFrame

ThmNext == GetResourceColor \/ GetRelationshipColor

InitThemes == InvIdle /\ DepIdle /\ LayIdle /\ RenIdle /\ MerIdle /\ ThmInit /\ CfgIdle /\ ExtIdle /\ NewIdle

SpecThemes == InitThemes /\ [][ThmNext]_vars

\* C13: every colour lookup on a registered theme returns a non-empty
\* colour; a category outside the seven gets the palette's `other` colour
\* and a kind outside the eight gets the palette's `foreground` colour.
C13_ColorFound ==
    thm.last # NoneVal =>
        LET colors == thm.configs[thm.last.theme].colors
        IN  /\ thm.last.color # ""
            /\ (thm.last.lookup = "resource" /\ thm.last.arg \notin ResourceCategories)
                   => thm.last.color = colors.other
            /\ (thm.last.lookup = "relationship" /\ thm.last.arg \notin RelationshipType)
                   => thm.last.color = colors.foreground

\* a lookup of a string that is no category has returned the fallback colour
C13_FallbackReturned ==
    /\ thm.last # NoneVal
    /\ thm.last.lookup = "resource"
    /\ thm.last.arg = "Unknown"
    /\ thm.last.color = ThemeColors[thm.last.theme].other

-----------------------------------------------------------------------------
(* Wire maps from outside (the `inventory` of a render request is passed   *)
(* to ResourceInventory.from_dict): the to_dict output of an inventory     *)
(* with one enumeration field replaced by a string that is no value of    *)
(* the enumeration.                                                        *)

\* str values that belong to none of the four enumerations
UnknownEnumValues == {"bogus", "Contains", ""}

\* inventories whose to_dict output is the base of a wire map
WireBaseInventories ==
    { Inventory(res, rels, meta) :
        res \in { xs \in SeqsUpTo(ResourceInputs, MaxResources) : xs # <<>> },
        rels \in { ys \in SeqsUpTo(RelationshipInputs, MaxRelationships) :
                     ys # <<>> /\ \A i \in DOMAIN ys : ys[i].relationship_type \in RelationshipType },
        meta \in { m \in MetaInputs : m.provider # NoneVal } }

\* the places of a wire map that hold an enumeration value
EnumPlaces ==
    { [field |-> "resource_type", of |-> "resources"], [field |-> "provider", of |-> "resources"],
      [field |-> "relationship_type", of |-> "relationships"],
      [field |-> "extraction_scope", of |-> "inventory"], [field |-> "provider", of |-> "inventory"] }

\* the wire text of a str in an Optional[str] entry of the map
WireStr(value) == IF value = "" THEN Str(<<>>) ELSE S(value)

\* data with the enumeration value at `place` of its first resource, its first
\* relationship or the inventory itself replaced
WithUnknownEnum(data, place, value) ==
    CASE place.of = "resources" ->
            [data EXCEPT !.resources[1] = [@ EXCEPT ![place.field] = value]]
      [] place.of = "relationships" ->
            [data EXCEPT !.relationships[1] = [@ EXCEPT ![place.field] = value]]
      [] place.of = "inventory" ->
            [data EXCEPT ![place.field] = WireStr(value)]

WireInit ==
    /\ resources = <<>>
    /\ relationships = <<>>
    /\ inv_meta = NoneVal
    /\ restored = NoneVal
    /\ \E i \in WireBaseInventories, place \in EnumPlaces, value \in UnknownEnumValues :
          /\ ResourceInventory_to_dict(i).ok
          /\ wire = Ok(WithUnknownEnum(ResourceInventory_to_dict(i).val, place, value))
          /\ wire_of = [place |-> place, value |-> value]

InitWire == WireInit /\ DepIdle /\ LayIdle /\ RenIdle /\ RestIdle

\* ResourceInventory.from_dict on the received map
SpecWire == InitWire /\ [][FromDict]_vars

\* C16: from_dict of a wire map with an unknown enumeration value fails with
\* the error of a malformed value (ValueError) and returns no inventory.
C16_UnknownEnumRejected ==
    restored # NoneVal => (~restored.ok /\ restored.err = "ValueError")

-----------------------------------------------------------------------------
(* CloudVizConfig.to_dict.  Two configurations are kept side by side: they *)
(* are loaded from the same file and environment except for the provider  *)
(* credentials, which each side draws on its own.                          *)

\* the section objects after CloudVizConfig.__init__ (dataclass defaults)
VisualizationConfig ==
    [ default_theme |-> "professional", default_format |-> "mermaid",
      default_layout |-> "hierarchical", output_directory |-> "./output",
      supported_formats |-> <<"mermaid", "png", "svg", "dot">>,
      themes |-> <<"professional", "dark", "light", "minimal">>,
      layouts |-> <<"hierarchical", "force", "circular", "tree">>, render_settings |-> <<>> ]

APIConfig ==
    [ host |-> "0.0.0.0", port |-> 8000, workers |-> 4, reload |-> FALSE, log_level |-> "info",
      cors_enabled |-> TRUE, cors_origins |-> <<"*">>, rate_limit_requests |-> 100,
      rate_limit_window |-> 60, max_request_size |-> 10485760, request_timeout |-> 300,
      jwt_secret |-> NoneVal, jwt_algorithm |-> "HS256", jwt_expiration |-> 3600,
      enable_https |-> FALSE, ssl_cert_file |-> NoneVal, ssl_key_file |-> NoneVal ]

DatabaseConfig ==
    [ url |-> NoneVal, driver |-> "sqlite", host |-> NoneVal, port |-> NoneVal,
      database |-> "cloudviz.db", username |-> NoneVal, password |-> NoneVal,
      pool_size |-> 5, max_overflow |-> 10, echo |-> FALSE ]

CacheConfig ==
    [ enabled |-> TRUE, backend |-> "memory", url |-> NoneVal, default_ttl |-> 3600,
      max_size |-> 1000, redis_host |-> "localhost", redis_port |-> 6379, redis_db |-> 0,
      redis_password |-> NoneVal ]

LoggingConfig ==
    [ level |-> "INFO", format |-> "%(asctime)s - %(name)s - %(levelname)s - %(message)s",
      file_path |-> NoneVal, max_file_size |-> 10485760, backup_count |-> 5,
      json_format |-> FALSE, correlation_id |-> TRUE ]

JobConfig ==
    [ max_concurrent_jobs |-> 5, job_timeout |-> 3600, cleanup_completed_jobs_after |-> 86400,
      cleanup_failed_jobs_after |-> 604800, result_storage_path |-> "./job_results" ]

\* CloudVizConfig.__init__ with no file found and no environment variable set
CloudVizConfig ==
    [ providers |-> <<>>, visualization |-> VisualizationConfig, api |-> APIConfig,
      database |-> DatabaseConfig, cache |-> CacheConfig, logging |-> LoggingConfig,
      jobs |-> JobConfig, custom_settings |-> <<>> ]

\* ProviderConfig(provider, authentication_method, ..., credentials=...)
ProviderConfig(provider, authentication_method, enabled, region, credentials) ==
    [ provider |-> provider, authentication_method |-> authentication_method,
      enabled |-> enabled, region |-> region, profile |-> NoneVal,
      credentials |-> credentials, extraction_settings |-> <<>>, rate_limits |-> <<>> ]

\* obj restricted to the attributes a section of to_dict reads
Attrs(obj, names) == [k \in names |-> obj[k]]

\* the entry of one provider with the attribute to_dict leaves out put in
ProviderEntryWithCredentials(config) ==
    [ provider |-> CloudProviderValue[config.provider],
      authentication_method |-> config.authentication_method, enabled |-> config.enabled,
      region |-> config.region, profile |-> config.profile,
      extraction_settings |-> config.extraction_settings, rate_limits |-> config.rate_limits,
      credentials |-> config.credentials ]

\* the entry of one provider in to_dict
ProviderEntry(config) ==
    [ provider |-> CloudProviderValue[config.provider],
      authentication_method |-> config.authentication_method, enabled |-> config.enabled,
      region |-> config.region, profile |-> config.profile,
      extraction_settings |-> config.extraction_settings, rate_limits |-> config.rate_limits ]

\* a to_dict whose provider entries carry the credentials
CloudVizConfig_to_dict_with_credentials(self) ==
    [ providers |-> [i \in DOMAIN self.providers |->
                        <<self.providers[i][1], ProviderEntryWithCredentials(self.providers[i][2])>>],
      visualization |-> self.visualization, api |-> self.api, database |-> self.database,
      cache |-> self.cache, logging |-> self.logging, jobs |-> self.jobs,
      custom_settings |-> self.custom_settings ]

\* CloudVizConfig.to_dict
CloudVizConfig_to_dict(self) ==
    [ providers |-> [i \in DOMAIN self.providers |->
                        <<self.providers[i][1], ProviderEntry(self.providers[i][2])>>],
      visualization |->
          Attrs(self.visualization,
                {"default_theme", "default_format", "default_layout", "output_directory",
                 "supported_formats", "themes", "layouts", "render_settings"}),
      api |->
          Attrs(self.api,
                {"host", "port", "workers", "cors_enabled", "cors_origins", "rate_limit_requests",
                 "rate_limit_window", "max_request_size", "request_timeout", "jwt_algorithm",
                 "jwt_expiration", "enable_https"}),
      database |-> Attrs(self.database, {"driver", "database", "pool_size", "max_overflow", "echo"}),
      cache |->
          Attrs(self.cache,
                {"enabled", "backend", "default_ttl", "max_size", "redis_host", "redis_port",
                 "redis_db"}),
      logging |->
          Attrs(self.logging,
                {"level", "format", "file_path", "max_file_size", "backup_count", "json_format",
                 "correlation_id"}),
      jobs |->
          Attrs(self.jobs,
                {"max_concurrent_jobs", "job_timeout", "cleanup_completed_jobs_after",
                 "cleanup_failed_jobs_after", "result_storage_path"}),
      custom_settings |-> self.custom_settings ]

\* what the environment or the file gives for a provider
ProviderNames == {"azure", "aws"}
ProviderMember == [azure |-> "AZURE", aws |-> "AWS"]
AuthenticationMethod == [azure |-> "service_principal", aws |-> "access_key"]
ProviderRegion == [azure |-> NoneVal, aws |-> S("us-east-1")]
CredentialInputs == { {<<"secret", "s3cr3t-A">>}, {<<"secret", "s3cr3t-B">>} }

CfgInit == cfg = [left |-> CloudVizConfig, right |-> CloudVizConfig, out |-> NoneVal]

\* self.providers[name] = ProviderConfig(...) in _load_provider_env_vars and
\* _apply_config_data: the same on both sides but for the credentials
load_provider(name, enabled, credentials, credentials2) ==
    LET entry(c) == ProviderConfig(ProviderMember[name], AuthenticationMethod[name], enabled,
                                   ProviderRegion[name], c)
    IN  cfg' = [ left |-> [cfg.left EXCEPT !.providers = Put(@, name, entry(credentials))],
                 right |-> [cfg.right EXCEPT !.providers = Put(@, name, entry(credentials2))],
                 out |-> NoneVal ]

\* CLOUDVIZ_API_HOST and CLOUDVIZ_JWT_SECRET in _load_from_environment
load_api(host, jwt_secret) ==
    /\ cfg.left.api.host # host
    /\ cfg' = [ left |-> [cfg.left EXCEPT !.api.host = host, !.api.jwt_secret = jwt_secret],
                right |-> [cfg.right EXCEPT !.api.host = host, !.api.jwt_secret = jwt_secret],
                out |-> NoneVal ]

config_to_dict ==
    cfg' = [cfg EXCEPT !.out = [ left |-> CloudVizConfig_to_dict(cfg.left),
                                 right |-> CloudVizConfig_to_dict(cfg.right) ]]

CfgFrame == UNCHANGED <<inv_vars, dep, lay, ren, mer, thm, ext, lbl, gv, jobs>>

LoadProvider ==
    (\E n \in ProviderNames, e \in BOOLEAN, c \in CredentialInputs, c2 \in CredentialInputs :
        load_provider(n, e, c, c2)) /\ CfgFrame
LoadApi == load_api("127.0.0.1", S("jwt-secret")) /\ CfgFrame
ConfigToDict == config_to_dict /\ CfgFrame

CfgNext == LoadProvider \/ LoadApi \/ ConfigToDict

InitConfig == InvIdle /\ DepIdle /\ LayIdle /\ RenIdle /\ MerIdle /\ ThmIdle /\ CfgInit /\ ExtIdle /\ NewIdle

SpecConfig == InitConfig /\ [][CfgNext]_vars

\* C17: no provider entry of a to_dict output has a `credentials` key, and
\* the outputs of two configurations that differ only in their providers'
\* credentials are equal.
C17_CredentialsNotExposed ==
    cfg.out # NoneVal =>
        /\ \A i \in DOMAIN cfg.out.left.providers :
              "credentials" \notin DOMAIN cfg.out.left.providers[i][2]
        /\ cfg.out.left = cfg.out.right

\* to_dict has been taken of two configurations with a provider whose
\* credentials differ
C17_DifferentCredentials ==
    /\ cfg.out # NoneVal
    /\ \E i \in DOMAIN cfg.left.providers :
          cfg.left.providers[i][2].credentials # cfg.right.providers[i][2].credentials

-----------------------------------------------------------------------------
(* Relationship inference as a whole:                                      *)
(* AzureResourceExtractor.extract_resource_relationships runs the          *)
(* containment, network, dependency and management passes inside one       *)
(* try block.  A resource is the AzureResource the extractor built: its    *)
(* Azure type is set, its id is given by its path parts.                   *)

MaxExtResources == 3

NullNode == [t |-> "NoneType"]

Rel(source_id, target_id, relationship_type, type) ==
    [ source_id |-> source_id, target_id |-> target_id,
      relationship_type |-> relationship_type, properties |-> type ]

\* the dict built by the first loop of the containment pass: name -> resource group
RECURSIVE ResourceGroupsByName(_, _)
ResourceGroupsByName(rs, resource_groups) ==
    IF rs = <<>> THEN resource_groups
    ELSE ResourceGroupsByName(Tail(rs),
            IF Head(rs).azure_type = "RESOURCE_GROUP"
            THEN Put(resource_groups, Head(rs).name, Head(rs))
            ELSE resource_groups)

IsResourceGroup(resource) == resource.azure_type = "RESOURCE_GROUP"
HasResourceGroupName(resource) == Truthy(resource.resource_group_name)
IsGroupMember(resource) == ~IsResourceGroup(resource) /\ HasResourceGroupName(resource)
ResourceGroupNameOf(resource) == resource.resource_group_name.v[1]

\* the second loop of the containment pass
RECURSIVE ContainmentEdges(_, _)
ContainmentEdges(by_resource_group, resource_groups) ==
    IF by_resource_group = <<>> THEN <<>>
    ELSE LET rg_name == Head(by_resource_group)[1]
             rg_resources == Head(by_resource_group)[2]
         IN  (IF HasKey(resource_groups, rg_name)
              THEN [ i \in DOMAIN rg_resources |->
                       Rel(Get(resource_groups, rg_name, NoneVal).id, rg_resources[i].id,
                           "CONTAINS", "resource_group_containment") ]
              ELSE <<>>)
             \o ContainmentEdges(Tail(by_resource_group), resource_groups)

\* a containment pass that files a resource group under its own
\* resource_group_name as well
extract_containment_relationships_of_all(rs) ==
    ContainmentEdges(GroupBy(ResourceGroupNameOf, SelectSeqBy(HasResourceGroupName, rs), <<>>),
                     ResourceGroupsByName(rs, <<>>))

\* AzureResourceExtractor._extract_containment_relationships
extract_containment_relationships(rs) ==
    ContainmentEdges(GroupBy(ResourceGroupNameOf, SelectSeqBy(IsGroupMember, rs), <<>>),
                     ResourceGroupsByName(rs, <<>>))

\* dict.get(key) on a node of the heap: the node of the value, 0 when the key
\* is missing
NodeGet(obj, key) ==
    IF \E i \in DOMAIN obj.items : obj.items[i][1] = key
    THEN obj.items[CHOOSE i \in DOMAIN obj.items : obj.items[i][1] = key][2]
    ELSE 0

\* the VNet -> Subnet loop for one subnet
SubnetEdges(subnet, lookup) ==
    IF \E i \in 1..(Len(subnet.id) - 1) : subnet.id[i] = "virtualNetworks"
    THEN IF ~\E i \in DOMAIN subnet.id : subnet.id[i] = "subnets"
         THEN Raise("ValueError")
         ELSE LET vnet_id == SubSeq(subnet.id, 1, IndexOf(subnet.id, "subnets") - 1)
              IN  Ok(IF vnet_id \in lookup
                     THEN <<Rel(vnet_id, subnet.id, "CONTAINS", "vnet_subnet_containment")>>
                     ELSE <<>>)
    ELSE Ok(<<>>)

\* the body of `for ip_config in ip_configs` for one item
IpConfigEdges(nic, heap, ip_config, lookup) ==
    IF heap[ip_config].t # "dict" THEN <<>>
    ELSE LET subnet_ref == NodeGet(heap[ip_config], "subnet")
         IN  IF subnet_ref = 0 THEN <<>>
             ELSE IF heap[subnet_ref].t # "dict" THEN <<>>
             ELSE LET subnet_id == NodeGet(heap[subnet_ref], "id")
                  IN  IF /\ subnet_id # 0
                         /\ heap[subnet_id].t = "str"
                         /\ heap[subnet_id].v \in lookup
                      THEN <<Rel(nic.id, heap[subnet_id].v, "CONNECTS_TO", "nic_subnet_connection")>>
                      ELSE <<>>

\* the NIC -> Subnet loop for one network interface
NicEdges(nic, lookup) ==
    LET heap == nic.properties.heap
        props == heap[nic.properties.root]
    IN  IF ~PropsTruthy(nic.properties) THEN Ok(<<>>)
        ELSE IF props.t # "dict" THEN Raise("AttributeError")
        ELSE LET ip_configs == NodeGet(props, "ipConfigurations")
             IN  IF ip_configs = 0 THEN Ok(<<>>)
                 ELSE IF heap[ip_configs].t \in {"NoneType", "int"} THEN Raise("TypeError")
                 ELSE IF heap[ip_configs].t # "list" THEN Ok(<<>>)
                 ELSE Ok(Concat([ i \in DOMAIN heap[ip_configs].items |->
                                    IpConfigEdges(nic, heap, heap[ip_configs].items[i], lookup) ]))

\* the edges of a loop over rs, or the first exception a pass of the loop raises
RECURSIVE EdgesOrRaise(_)
EdgesOrRaise(results) ==
    IF results = <<>> THEN Ok(<<>>)
    ELSE IF ~Head(results).ok THEN Head(results)
    ELSE LET rest == EdgesOrRaise(Tail(results))
         IN  IF ~rest.ok THEN rest ELSE Ok(Head(results).val \o rest.val)

\* AzureResourceExtractor._extract_network_relationships
extract_network_relationships(rs, lookup) ==
    LET subnets == SelectSeqBy(LAMBDA r : r.azure_type = "SUBNET", rs)
        nics == SelectSeqBy(LAMBDA r : r.azure_type = "NETWORK_INTERFACE", rs)
    IN  EdgesOrRaise([i \in DOMAIN subnets |-> SubnetEdges(subnets[i], lookup)]
                     \o [i \in DOMAIN nics |-> NicEdges(nics[i], lookup)])

\* extract_resource_ids(obj) called at the given depth: the ids appended, or
\* RecursionError
RECURSIVE WalkIds(_, _, _)
WalkIds(heap, node, depth) ==
    IF depth > RecursionLimit THEN Raise("RecursionError")
    ELSE LET obj == heap[node]
         IN  IF obj.t = "dict"
             THEN EdgesOrRaise([ i \in DOMAIN obj.items |->
                                   LET key == obj.items[i][1]
                                       value == heap[obj.items[i][2]]
                                   IN  IF /\ key \in {"id", "resourceId"}
                                          /\ value.t = "str"
                                          /\ HasSubscriptions(value.v)
                                       THEN Ok(<<value.v>>)
                                       ELSE WalkIds(heap, obj.items[i][2], depth + 1) ])
             ELSE IF obj.t = "list"
             THEN EdgesOrRaise([ i \in DOMAIN obj.items |->
                                   WalkIds(heap, obj.items[i], depth + 1) ])
             ELSE Ok(<<>>)

\* the dependency loop for one resource; list(set(dependencies)) is taken in
\* the order of first occurrence
RECURSIVE Unique(_)
Unique(seq) ==
    IF seq = <<>> THEN <<>>
    ELSE LET front == Unique(SubSeq(seq, 1, Len(seq) - 1))
             last == seq[Len(seq)]
         IN  IF \E i \in DOMAIN front : front[i] = last THEN front ELSE Append(front, last)

DependencyEdges(resource, lookup) ==
    IF ~PropsTruthy(resource.properties) THEN Ok(<<>>)
    ELSE LET found == WalkIds(resource.properties.heap, resource.properties.root, 1)
         IN  IF ~found.ok THEN found
             ELSE LET dependencies == Unique(found.val)
                  IN  Ok(Concat([ i \in DOMAIN dependencies |->
                                    IF dependencies[i] \in lookup
                                    THEN <<Rel(resource.id, dependencies[i], "DEPENDS_ON",
                                               "resource_dependency")>>
                                    ELSE <<>> ]))

\* AzureResourceExtractor._extract_dependency_relationships
extract_dependency_relationships(rs, lookup) ==
    EdgesOrRaise([i \in DOMAIN rs |-> DependencyEdges(rs[i], lookup)])

\* AzureResourceExtractor._extract_management_relationships
extract_management_relationships(rs, lookup) ==
    Concat([ i \in DOMAIN rs |->
               IF Truthy(rs[i].managed_by) /\ rs[i].managed_by.v \in lookup
               THEN <<Rel(rs[i].id, rs[i].managed_by.v, "MANAGED_BY", "managed_by_relationship")>>
               ELSE <<>> ])

\* the resources a call is made with
ExtResource(id, name, azure_type, resource_group_name, managed_by, properties) ==
    [ id |-> id, name |-> name, azure_type |-> azure_type,
      resource_group_name |-> resource_group_name, managed_by |-> managed_by,
      properties |-> properties ]

SubnetId ==
    <<"subscriptions", "s1", "resourceGroups", "rg1", "providers", "Microsoft.Network",
      "virtualNetworks", "vnet1", "subnets", "sn1">>
VnetId == SubSeq(SubnetId, 1, 8)
ResourceGroupId == <<"subscriptions", "s1", "resourceGroups", "rg1">>
DiskId == <<"subscriptions", "s1", "resourceGroups", "rg2", "disk1">>

PropsIpConfigurations(subnet_id) ==
    Props(1 :> DictNode(<<<<"ipConfigurations", 2>>>>)
          @@ 2 :> ListNode(<<3>>)
          @@ 3 :> DictNode(<<<<"name", 4>>, <<"subnet", 5>>>>)
          @@ 4 :> StrNode(<<"ipconfig1">>)
          @@ 5 :> DictNode(<<<<"id", 6>>>>)
          @@ 6 :> StrNode(subnet_id), 1)
\* "ipConfigurations": null
PropsNullIpConfigurations ==
    Props(1 :> DictNode(<<<<"ipConfigurations", 2>>>>) @@ 2 :> NullNode, 1)
\* a properties value that is a list
PropsList == Props(1 :> ListNode(<<2>>) @@ 2 :> IntNode, 1)

MalformedProps == {PropsNullIpConfigurations, PropsList}

ExtResourcePool ==
    { ExtResource(ResourceGroupId, "rg1", "RESOURCE_GROUP", S("rg1"), NoneVal, PropsEmpty),
      ExtResource(AzureId("vm1"), "vm1", "VIRTUAL_MACHINE", S("rg1"), NoneVal,
                  PropsNested(AzureId("nic1"))),
      ExtResource(AzureId("nic1"), "nic1", "NETWORK_INTERFACE", S("rg1"), NoneVal,
                  PropsIpConfigurations(SubnetId)),
      ExtResource(AzureId("nic2"), "nic2", "NETWORK_INTERFACE", S("rg1"), NoneVal,
                  PropsNullIpConfigurations),
      ExtResource(AzureId("nic2"), "nic2", "NETWORK_INTERFACE", S("rg1"), NoneVal, PropsList),
      ExtResource(SubnetId, "sn1", "SUBNET", S("rg1"), NoneVal, PropsEmpty),
      ExtResource(VnetId, "vnet1", "VIRTUAL_NETWORK", S("rg1"), NoneVal, PropsEmpty),
      ExtResource(DiskId, "disk1", "DISK", S("rg2"), Str(AzureId("vm1")), PropsEmpty) }

ExtResourceLists ==
    { rs \in UNION { [1..n -> ExtResourcePool] : n \in 0..MaxExtResources } :
        \A i, j \in DOMAIN rs : i # j => rs[i].id # rs[j].id }

ExtInit ==
    \E rs \in ExtResourceLists :
        ext = [ pc |-> "containment", resources |-> rs, relationships |-> <<>>,
                error |-> NoneVal ]

ExtFrame == UNCHANGED <<inv_vars, dep, lay, ren, mer, thm, cfg, lbl, gv, jobs>>

\* relationships.extend(<pass>) inside the try block: an exception leaves the
\* block, is logged, and the function returns the relationships it has
ExtendOrExcept(result, next_pc) ==
    ext' = IF result.ok
           THEN [ext EXCEPT !.relationships = @ \o result.val, !.pc = next_pc]
           ELSE [ext EXCEPT !.error = S(result.err), !.pc = "return"]

extract_containment ==
    /\ ext # NoneVal /\ ext.pc = "containment"
    /\ ExtendOrExcept(Ok(extract_containment_relationships(ext.resources)), "network")

extract_network ==
    /\ ext # NoneVal /\ ext.pc = "network"
    /\ ExtendOrExcept(extract_network_relationships(ext.resources,
                                                    resource_lookup(ext.resources)),
                      "dependency")

extract_dependency ==
    /\ ext # NoneVal /\ ext.pc = "dependency"
    /\ ExtendOrExcept(extract_dependency_relationships(ext.resources,
                                                       resource_lookup(ext.resources)),
                      "management")

extract_management ==
    /\ ext # NoneVal /\ ext.pc = "management"
    /\ ExtendOrExcept(Ok(extract_management_relationships(ext.resources,
                                                          resource_lookup(ext.resources))),
                      "return")

extract_return ==
    /\ ext # NoneVal /\ ext.pc = "return"
    /\ ext' = [ext EXCEPT !.pc = "done"]

ExtractContainment == extract_containment /\ ExtFrame
ExtractNetwork == extract_network /\ ExtFrame
ExtractDependency == extract_dependency /\ ExtFrame
ExtractManagement == extract_management /\ ExtFrame
ExtractReturn == extract_return /\ ExtFrame

ExtNext ==
    \/ ExtractContainment
    \/ ExtractNetwork
    \/ ExtractDependency
    \/ ExtractManagement
    \/ ExtractReturn

InitExt == InvIdle /\ DepIdle /\ LayIdle /\ RenIdle /\ MerIdle /\ ThmIdle /\ CfgIdle /\ ExtInit /\ NewIdle

SpecExt == InitExt /\ [][ExtNext]_vars

\* the call with the malformed properties values replaced by an empty dict
Sanitized(rs) ==
    [ i \in DOMAIN rs |->
        IF rs[i].properties \in MalformedProps
        THEN [rs[i] EXCEPT !.properties = PropsEmpty]
        ELSE rs[i] ]

DerivableEdges(rs) ==
    SeqToSet(extract_containment_relationships(rs))
    \cup SeqToSet(extract_network_relationships(rs, resource_lookup(rs)).val)
    \cup SeqToSet(extract_dependency_relationships(rs, resource_lookup(rs)).val)
    \cup SeqToSet(extract_management_relationships(rs, resource_lookup(rs)))

\* C18: when extract_resource_relationships returns, the edges that the four
\* passes derive from the resources whose properties are well-formed are all
\* in the returned list, whatever the properties of the other resources are
C18_OtherEdgesReturned ==
    (ext # NoneVal /\ ext.pc = "done") =>
        DerivableEdges(Sanitized(ext.resources)) \subseteq SeqToSet(ext.relationships)

IsContainmentEdge(rel) == rel.properties = "resource_group_containment"

\* C19: after the containment pass, each member of a group whose resource
\* group is in the list is the target of exactly one resource-group Contains
\* edge, coming from that resource group; a member of a group whose resource
\* group is absent, and a resource group itself, is the target of none; no
\* such edge has the same source and target
C19_OneContainsPerMember ==
    (ext # NoneVal /\ ext.pc # "containment") =>
        LET rels == ext.relationships
            rs == ext.resources
            Into(r) == { k \in DOMAIN rels : IsContainmentEdge(rels[k]) /\ rels[k].target_id = r.id }
            GroupsOf(r) == { g \in SeqToSet(rs) : /\ IsResourceGroup(g)
                                                     /\ S(g.name) = r.resource_group_name }
        IN  /\ \A i \in DOMAIN rs :
                  IF IsGroupMember(rs[i]) /\ GroupsOf(rs[i]) # {}
                  THEN /\ Cardinality(Into(rs[i])) = 1
                       /\ \A k \in Into(rs[i]) :
                            /\ rels[k].relationship_type = "CONTAINS"
                            /\ \E g \in GroupsOf(rs[i]) : rels[k].source_id = g.id
                  ELSE Into(rs[i]) = {}
            /\ \A k \in DOMAIN rels :
                  IsContainmentEdge(rels[k]) => rels[k].source_id # rels[k].target_id

\* the containment pass has run on a list holding a resource group, one of
\* its members, and a member of a group whose resource group is absent
C19_ContainerPresentAndAbsent ==
    /\ ext # NoneVal /\ ext.pc # "containment"
    /\ \E i, j, k \in DOMAIN ext.resources :
          /\ IsResourceGroup(ext.resources[i])
          /\ IsGroupMember(ext.resources[j])
          /\ S(ext.resources[i].name) = ext.resources[j].resource_group_name
          /\ IsGroupMember(ext.resources[k])
          /\ ~\E g \in DOMAIN ext.resources :
                /\ IsResourceGroup(ext.resources[g])
                /\ S(ext.resources[g].name) = ext.resources[k].resource_group_name
    /\ \E e \in DOMAIN ext.relationships : IsContainmentEdge(ext.relationships[e])

-----------------------------------------------------------------------------
(* Label truncation.  MermaidEngine and GraphvizEngine read max_label_length *)
(* from their config (default 20 and 30) and have the same _truncate_label. *)

MaxLabelLength == 5
MaxNameLength == 8

Alphabet == <<"a", "b", "c", "d", "e", "f", "g", "h", "i", "j", "k", "l">>

\* config.get('max_label_length', default) for the configs given
MaxLabelLengths(default) == 0..MaxLabelLength \cup {default}

LabelNames ==
    { SubSeq(Alphabet, 1, n) : n \in 0..MaxNameLength }
    \cup { [i \in 1..21 |-> "x"], [i \in 1..31 |-> "x"] }

LblInit ==
    lbl \in { [engine |-> "mermaid", max_label_length |-> n, call |-> NoneVal] :
                n \in MaxLabelLengths(20) }
            \cup
            { [engine |-> "graphviz", max_label_length |-> n, call |-> NoneVal] :
                n \in MaxLabelLengths(30) }

mermaid_truncate_label(text) ==
    /\ lbl.engine = "mermaid"
    /\ lbl' = [lbl EXCEPT !.call = [text |-> text,
                                    label |-> truncate_label(lbl.max_label_length, text)]]

graphviz_truncate_label(text) ==
    /\ lbl.engine = "graphviz"
    /\ lbl' = [lbl EXCEPT !.call = [text |-> text,
                                    label |-> truncate_label(lbl.max_label_length, text)]]

LblFrame == UNCHANGED <<inv_vars, dep, lay, ren, mer, thm, cfg, ext, gv, jobs>>

MermaidTruncateLabel == (\E text \in LabelNames : mermaid_truncate_label(text)) /\ LblFrame
GraphvizTruncateLabel == (\E text \in LabelNames : graphviz_truncate_label(text)) /\ LblFrame

LblNext == MermaidTruncateLabel \/ GraphvizTruncateLabel

InitLabels ==
    /\ InvIdle /\ DepIdle /\ LayIdle /\ RenIdle /\ MerIdle /\ ThmIdle /\ CfgIdle /\ ExtIdle
    /\ LblInit /\ GvIdle /\ JobsIdle

SpecLabels == InitLabels /\ [][LblNext]_vars

EndsWith(text, suffix) ==
    /\ Len(text) >= Len(suffix)
    /\ SubSeq(text, Len(text) - Len(suffix) + 1, Len(text)) = suffix

\* C26: for every configured max_label_length the truncated name is at most
\* max_label_length characters long; a name of at most max_label_length
\* characters is returned unchanged, and a longer name's label ends with the
\* ellipsis marker.
C26_LabelWithinMaximum ==
    lbl.call # NoneVal =>
        /\ Len(lbl.call.label) <= lbl.max_label_length
        /\ Len(lbl.call.text) <= lbl.max_label_length => lbl.call.label = lbl.call.text
        /\ Len(lbl.call.text) > lbl.max_label_length => EndsWith(lbl.call.label, Ellipsis)

-----------------------------------------------------------------------------
(* GraphvizEngine: the DOT text of an inventory.  A text is a sequence of   *)
(* lines and a line a sequence of pieces; the text of a resource (its id,   *)
(* its name) is given character by character, the text the engine writes    *)
(* itself in the pieces of its f-strings.                                   *)

Backslash == "\\"

\* str.isalnum() for the characters of the ids
AlnumChars ==
    {"a", "b", "c", "d", "e", "m", "n", "s", "t", "u", "v", "w", "0", "1", "2"}

\* text.replace(old, new) for a one-character old
RECURSIVE Replace(_, _, _)
Replace(text, old, new) ==
    IF text = <<>> THEN <<>>
    ELSE (IF Head(text) = old THEN new ELSE <<Head(text)>>) \o Replace(Tail(text), old, new)

RECURSIVE KeepChars(_, _)
KeepChars(text, chars) ==
    IF text = <<>> THEN <<>>
    ELSE (IF Head(text) \in chars THEN <<Head(text)>> ELSE <<>>) \o KeepChars(Tail(text), chars)

GraphvizEngine_sanitize_id(resource_id) ==
    KeepChars(Replace(Replace(Replace(resource_id, "/", <<"_">>), "-", <<"_">>), ".", <<"_">>),
              AlnumChars \cup {"_"})

GraphvizEngine_escape_label(text) ==
    Replace(Replace(text, Quote, <<Backslash, Quote>>), Backslash, <<Backslash, Backslash>>)

\* GraphvizEngine(config): the attributes __init__ sets, for a config that
\* may give group_by_resource_group
GraphvizEngine(config) ==
    [ rankdir |-> "TB", splines |-> "ortho", overlap |-> "false", nodesep |-> "0.5",
      ranksep |-> "0.5", fontname |-> "Arial", fontsize |-> "10", edge_fontsize |-> "9",
      include_resource_types |-> TRUE, include_regions |-> TRUE,
      group_by_resource_group |-> Get(config, "group_by_resource_group", TRUE),
      show_relationships |-> TRUE, max_label_length |-> 30 ]

GraphvizEngine_truncate_label(self, text) == truncate_label(self.max_label_length, text)

\* '\\n'.join(parts): the separator is the two characters \ and n
GraphvizEngine_create_resource_label(self, resource) ==
    LET name == GraphvizEngine_escape_label(GraphvizEngine_truncate_label(self, resource.name))
        parts == << name >>
                 \o (IF self.include_resource_types
                     THEN << <<"(">> \o GraphvizEngine_escape_label(<<get_category(resource)>>)
                             \o <<")">> >>
                     ELSE <<>>)
                 \o (IF self.include_regions /\ Truthy(resource.region)
                     THEN << <<"[">> \o GraphvizEngine_escape_label(resource.region.v)
                             \o <<"]">> >>
                     ELSE <<>>)
    IN  Join("\\n", parts)

GraphvizEngine_get_resource_shape(resource) ==
    LET shape_map == Table({ <<"Compute", "box">>, <<"Storage", "ellipse">>,
                             <<"Networking", "diamond">>, <<"Database", "cylinder">>,
                             <<"Security", "octagon">>, <<"Management", "folder">>,
                             <<"Other", "box">> })
        category == get_category(resource)
    IN  IF category \in DOMAIN shape_map THEN shape_map[category] ELSE "box"

Colors(fillcolor, color, fontcolor) ==
    [fillcolor |-> fillcolor, color |-> color, fontcolor |-> fontcolor]

color_schemes ==
    [ professional |->
        Table({ <<"Compute", Colors("#0078d4", "#005a9e", "white")>>,
                <<"Storage", Colors("#00bcf2", "#0082a6", "white")>>,
                <<"Networking", Colors("#7fba00", "#5c8a00", "white")>>,
                <<"Database", Colors("#ff6c00", "#cc5500", "white")>>,
                <<"Security", Colors("#5c2d91", "#4a2574", "white")>>,
                <<"Management", Colors("#68217a", "#531968", "white")>>,
                <<"Other", Colors("#737373", "#525252", "white")>> }),
      dark |->
        Table({ <<"Compute", Colors("#2d3748", "#4a5568", "#e2e8f0")>>,
                <<"Storage", Colors("#2c5282", "#3182ce", "#e2e8f0")>>,
                <<"Networking", Colors("#276749", "#38a169", "#e2e8f0")>>,
                <<"Database", Colors("#9c4221", "#dd6b20", "#e2e8f0")>>,
                <<"Security", Colors("#553c9a", "#805ad5", "#e2e8f0")>>,
                <<"Management", Colors("#702459", "#d53f8c", "#e2e8f0")>>,
                <<"Other", Colors("#4a5568", "#6b7280", "#e2e8f0")>> }),
      light |->
        Table({ <<"Compute", Colors("#ebf8ff", "#3182ce", "#2c5282")>>,
                <<"Storage", Colors("#e6fffa", "#38b2ac", "#285e61")>>,
                <<"Networking", Colors("#f0fff4", "#38a169", "#276749")>>,
                <<"Database", Colors("#fffaf0", "#dd6b20", "#9c4221")>>,
                <<"Security", Colors("#faf5ff", "#805ad5", "#553c9a")>>,
                <<"Management", Colors("#fdf2f8", "#d53f8c", "#702459")>>,
                <<"Other", Colors("#f9fafb", "#6b7280", "#374151")>> }),
      minimal |->
        [ c \in {"Compute", "Storage", "Networking", "Database", "Security", "Management",
                 "Other"} |-> Colors("#f9f9f9", "#d1d5db", "#374151") ],
      colorful |->
        Table({ <<"Compute", Colors("#ff6b6b", "#ee5a52", "white")>>,
                <<"Storage", Colors("#4ecdc4", "#45b7b8", "white")>>,
                <<"Networking", Colors("#45b7d1", "#3498db", "white")>>,
                <<"Database", Colors("#f9ca24", "#f0932b", "black")>>,
                <<"Security", Colors("#6c5ce7", "#a29bfe", "white")>>,
                <<"Management", Colors("#fd79a8", "#e84393", "white")>>,
                <<"Other", Colors("#78e08f", "#6ab04c", "white")>> }) ]

GraphvizEngine_get_resource_colors(resource, theme) ==
    LET scheme == IF theme \in DOMAIN color_schemes
                  THEN color_schemes[theme] ELSE color_schemes.professional
        category == get_category(resource)
    IN  IF category \in DOMAIN scheme THEN scheme[category] ELSE scheme["Other"]

\* f'{key}="{value}"'
Attr(key, value) == <<key, Quote>> \o value \o <<Quote>>

GraphvizEngine_get_resource_node_attributes(self, resource, theme) ==
    LET colors == GraphvizEngine_get_resource_colors(resource, theme)
    IN  << Attr("label=", GraphvizEngine_create_resource_label(self, resource)),
           Attr("shape=", <<GraphvizEngine_get_resource_shape(resource)>>),
           Attr("fillcolor=", <<colors.fillcolor>>),
           Attr("color=", <<colors.color>>),
           Attr("fontcolor=", <<colors.fontcolor>>) >>

GraphvizEngine_create_resource_node(self, resource, theme, indent) ==
    <<indent, Quote>> \o GraphvizEngine_sanitize_id(resource.id) \o <<Quote, " [">>
    \o Join(", ", GraphvizEngine_get_resource_node_attributes(self, resource, theme))
    \o <<"];">>

GraphvizEngine_get_relationship_style ==
    Table({ <<"CONTAINS", "solid">>, <<"CONNECTS_TO", "dashed">>, <<"DEPENDS_ON", "bold">>,
            <<"MANAGED_BY", "solid">>, <<"SECURED_BY", "dotted">>, <<"ROUTES_TO", "dashed">>,
            <<"REPLICATES_TO", "bold">>, <<"BACKS_UP_TO", "bold">> })

GraphvizEngine_get_relationship_color(relationship_type, theme) ==
    LET color_map ==
            Table({ <<"CONTAINS", "#0078d4">>, <<"CONNECTS_TO", "#7fba00">>,
                    <<"DEPENDS_ON", "#ff6c00">>, <<"MANAGED_BY", "#5c2d91">>,
                    <<"SECURED_BY", "#dc2626">>, <<"ROUTES_TO", "#059669">>,
                    <<"REPLICATES_TO", "#dc2626">>, <<"BACKS_UP_TO", "#0891b2">> })
    IN  IF theme = "minimal" THEN "#6b7280"
        ELSE IF theme = "dark" THEN "#9ca3af"
        ELSE color_map[relationship_type]

GraphvizEngine_create_relationship_edge(relationship, theme) ==
    <<Quote>> \o GraphvizEngine_sanitize_id(relationship.source_id) \o <<Quote, " -> ", Quote>>
    \o GraphvizEngine_sanitize_id(relationship.target_id) \o <<Quote, " [">>
    \o Join(", ",
            << Attr("label=",
                    GraphvizEngine_escape_label(<<get_edge_label[relationship.relationship_type]>>)),
               Attr("style=",
                    <<GraphvizEngine_get_relationship_style[relationship.relationship_type]>>),
               Attr("color=",
                    <<GraphvizEngine_get_relationship_color(relationship.relationship_type,
                                                            theme)>>) >>)
    \o <<"];">>

GraphvizEngine_add_relationships(rels, theme) ==
    [ i \in DOMAIN rels |-> <<"    ">> \o GraphvizEngine_create_relationship_edge(rels[i], theme) ]

\* rg_name = resource.resource_group or ""
ResourceGroupOrEmpty(resource) ==
    IF Truthy(resource.resource_group) THEN resource.resource_group.v ELSE <<>>

GraphvizEngine_group_resources_by_resource_group(rs) == GroupBy(ResourceGroupOrEmpty, rs, <<>>)

RECURSIVE ClusterLines(_, _, _, _)
ClusterLines(self, groups, cluster_id, theme) ==
    IF groups = <<>> THEN <<>>
    ELSE LET rg_name == Head(groups)[1]
             rg_resources == Head(groups)[2]
         IN  IF rg_name # <<>> /\ rg_resources # <<>>
             THEN << <<"    subgraph ", Quote, "cluster_", ToText(cluster_id + 1), Quote, " {">>,
                     <<"        label=", Quote>> \o rg_name \o <<Quote, ";">>,
                     <<"        style=", Quote, "rounded,filled", Quote, ";">>,
                     <<"        fillcolor=", Quote, "#f0f0f0", Quote, ";">>,
                     <<"        color=", Quote, "#cccccc", Quote, ";">>,
                     <<>> >>
                  \o [ i \in DOMAIN rg_resources |->
                         GraphvizEngine_create_resource_node(self, rg_resources[i], theme,
                                                             "        ") ]
                  \o << <<"    }">>, <<>> >>
                  \o ClusterLines(self, Tail(groups), cluster_id + 1, theme)
             ELSE ClusterLines(self, Tail(groups), cluster_id, theme)

GraphvizEngine_add_resource_groups(self, rs, theme) ==
    LET groups == GraphvizEngine_group_resources_by_resource_group(rs)
        ungrouped == Get(groups, <<>>, <<>>) \o Get(groups, <<"No Resource Group">>, <<>>)
    IN  << <<"    // Resource Groups">> >>
        \o ClusterLines(self, groups, 0, theme)
        \o (IF ungrouped # <<>>
            THEN << <<"    // Ungrouped Resources">> >>
                 \o [ i \in DOMAIN ungrouped |->
                        GraphvizEngine_create_resource_node(self, ungrouped[i], theme, "    ") ]
                 \o << <<>> >>
            ELSE <<>>)

GraphvizEngine_add_resources(self, rs, theme) ==
    << <<"    // Resources">> >>
    \o [ i \in DOMAIN rs |-> GraphvizEngine_create_resource_node(self, rs[i], theme, "    ") ]
    \o << <<>> >>

\* the rank=same line of one category group, or nothing for a group of one
RankSameLines(type_resources) ==
    IF Len(type_resources) > 1
    THEN << <<"    { rank=same; ">>
            \o Join("; ", [ i \in DOMAIN type_resources |->
                              <<Quote>> \o GraphvizEngine_sanitize_id(type_resources[i].id)
                              \o <<Quote>> ])
            \o <<"; }">> >>
    ELSE <<>>

GraphvizEngine_add_layout_constraints(layout, rs) ==
    IF layout = "hierarchical"
    THEN LET by_type == GroupBy(get_category, rs, <<>>)
         IN  IF Len(by_type) > 1
             THEN << <<>>, <<"    // Layout constraints">> >>
                  \o Concat([ i \in DOMAIN by_type |-> RankSameLines(by_type[i][2]) ])
             ELSE <<>>
    ELSE <<>>

GraphvizEngine_get_theme_graph_attributes(theme) ==
    IF theme = "dark"
    THEN << <<"    bgcolor=", Quote, "#1a202c", Quote, ";">>,
            <<"    fontcolor=", Quote, "#e2e8f0", Quote, ";">> >>
    ELSE IF theme = "light"
    THEN << <<"    bgcolor=", Quote, "#ffffff", Quote, ";">>,
            <<"    fontcolor=", Quote, "#374151", Quote, ";">> >>
    ELSE IF theme = "minimal"
    THEN << <<"    bgcolor=", Quote, "#ffffff", Quote, ";">>,
            <<"    fontcolor=", Quote, "#6b7280", Quote, ";">> >>
    ELSE <<>>

GraphvizEngine_get_graph_attributes(self, rankdir, splines, layout, theme) ==
    << <<"    // Graph attributes">>,
       <<"    rankdir=", Quote, rankdir, Quote, ";">>,
       <<"    splines=", Quote, splines, Quote, ";">>,
       <<"    overlap=", Quote, self.overlap, Quote, ";">>,
       <<"    nodesep=", Quote, self.nodesep, Quote, ";">>,
       <<"    ranksep=", Quote, self.ranksep, Quote, ";">>,
       <<"    fontname=", Quote, self.fontname, Quote, ";">>,
       <<"    fontsize=", Quote, self.fontsize, Quote, ";">>,
       <<"    layout=", Quote,
         (IF layout = "circular" THEN "circo"
          ELSE IF layout = "force" THEN "fdp"
          ELSE IF layout = "radial" THEN "twopi" ELSE "dot"), Quote, ";">> >>
    \o GraphvizEngine_get_theme_graph_attributes(theme)
    \o << <<>> >>

GraphvizEngine_get_theme_node_attributes(theme) ==
    IF theme = "minimal"
    THEN << Attr("fillcolor=", <<"#f9fafb">>), Attr("color=", <<"#d1d5db">>),
            Attr("fontcolor=", <<"#374151">>) >>
    ELSE IF theme = "dark"
    THEN << Attr("fillcolor=", <<"#374151">>), Attr("color=", <<"#6b7280">>),
            Attr("fontcolor=", <<"#e2e8f0">>) >>
    ELSE << Attr("fillcolor=", <<"#ffffff">>), Attr("color=", <<"#374151">>),
            Attr("fontcolor=", <<"#374151">>) >>

GraphvizEngine_get_theme_edge_attributes(theme) ==
    IF theme = "minimal"
    THEN << Attr("color=", <<"#9ca3af">>), Attr("fontcolor=", <<"#6b7280">>) >>
    ELSE IF theme = "dark"
    THEN << Attr("color=", <<"#9ca3af">>), Attr("fontcolor=", <<"#e2e8f0">>) >>
    ELSE << Attr("color=", <<"#6b7280">>), Attr("fontcolor=", <<"#374151">>) >>

Indented(attrs) == [ i \in DOMAIN attrs |-> <<"        ">> \o attrs[i] ]

GraphvizEngine_get_default_node_attributes(self, theme) ==
    << <<"    // Default node attributes">>,
       <<"    node [">>,
       <<"        fontname=", Quote, self.fontname, Quote, ",">>,
       <<"        fontsize=", Quote, self.fontsize, Quote, ",">>,
       <<"        shape=", Quote, "box", Quote, ",">>,
       <<"        style=", Quote, "rounded,filled", Quote, ",">> >>
    \o Indented(GraphvizEngine_get_theme_node_attributes(theme))
    \o << <<"    ];">>, <<>> >>

GraphvizEngine_get_default_edge_attributes(self, theme) ==
    << <<"    // Default edge attributes">>,
       <<"    edge [">>,
       <<"        fontname=", Quote, self.fontname, Quote, ",">>,
       <<"        fontsize=", Quote, self.edge_fontsize, Quote, ",">> >>
    \o Indented(GraphvizEngine_get_theme_edge_attributes(theme))
    \o << <<"    ];">>, <<>> >>

GraphvizEngine_add_metadata_comments(content, inv) ==
    << <<"/* CloudViz Generated DOT Diagram */">>,
       <<"/* Generated at: ">> \o isoformat(inv.extraction_time).v \o <<" */">>,
       <<"/* Resource count: ", ToText(Len(inv.resources)), " */">>,
       <<"/* Relationship count: ", ToText(Len(inv.relationships)), " */">> >>
    \o (IF inv.provider # NoneVal
        THEN << <<"/* Provider: ", CloudProviderValue[inv.provider.v[1]], " */">> >> ELSE <<>>)
    \o (IF inv.extraction_scope # NoneVal
        THEN << <<"/* Scope: ", ExtractionScopeValue[inv.extraction_scope.v[1]], " */">> >>
             \o (IF Truthy(inv.scope_identifier)
                 THEN << <<"/* Scope ID: ">> \o inv.scope_identifier.v \o <<" */">> >>
                 ELSE <<>>)
        ELSE <<>>)
    \o << <<>> >>
    \o content

GraphvizEngine_generate_dot_content(self, inv, theme, layout, rankdir, splines) ==
    GraphvizEngine_add_metadata_comments(
        << <<"digraph ", Quote, "CloudInfrastructure", Quote, " {">> >>
        \o GraphvizEngine_get_graph_attributes(self, rankdir, splines, layout, theme)
        \o GraphvizEngine_get_default_node_attributes(self, theme)
        \o GraphvizEngine_get_default_edge_attributes(self, theme)
        \o (IF self.group_by_resource_group
            THEN GraphvizEngine_add_resource_groups(self, inv.resources, theme)
            ELSE GraphvizEngine_add_resources(self, inv.resources, theme))
        \o (IF self.show_relationships /\ inv.relationships # <<>>
            THEN << <<>>, <<"    // Relationships">> >>
                 \o GraphvizEngine_add_relationships(inv.relationships, theme)
            ELSE <<>>)
        \o GraphvizEngine_add_layout_constraints(layout, inv.resources)
        \o << <<"}">> >>,
        inv)

\* GraphvizEngine.render, to the bytes it returns
GraphvizEngine_render_bytes(self, inv, output_format, theme, layout) ==
    IF ~validate_options("graphviz", output_format, theme, layout) THEN Raise(InvalidOptions)
    ELSE Ok(Encode(GraphvizEngine_generate_dot_content(
                       self, inv, OrDefault(theme, "professional").v[1],
                       OrDefault(layout, "hierarchical").v[1], self.rankdir, self.splines)))

\* ---- the inventories and the calls ----

MaxGvResources == 3
MaxGvRelationships == 1

GvResource(id, name, resource_type, region, resource_group) ==
    [ id |-> id, name |-> name, resource_type |-> resource_type, region |-> region,
      resource_group |-> resource_group ]

GvResourcePool ==
    { GvResource(<<"v", "m", "-", "1">>, <<"w", "e", "b">>, "VIRTUAL_MACHINE",
                 S("eastus"), S("app")),
      GvResource(<<"v", "m", "_", "1">>, <<"s", "a", "y", " ", Quote, "h", "i", Quote>>,
                 "VIRTUAL_MACHINE", NoneVal, S("app")),
      GvResource(<<"n", "e", "t">>, <<"n", "e", "t", Backslash, "a">>, "VIRTUAL_NETWORK",
                 NoneVal, NoneVal),
      GvResource(<<"n", "e", "t", "/", "s", "u", "b">>, <<"s", "u", "b">>, "SUBNET",
                 NoneVal, S("app")) }

GvRelationshipPool ==
    { [source_id |-> <<"n", "e", "t">>, target_id |-> <<"n", "e", "t", "/", "s", "u", "b">>,
       relationship_type |-> "CONTAINS"],
      [source_id |-> <<"v", "m", "-", "1">>, target_id |-> <<"n", "e", "t">>,
       relationship_type |-> "DEPENDS_ON"] }

GvInventories ==
    { [ resources |-> rs, relationships |-> rels,
        extraction_time |-> DateTime(0, 0, FALSE), provider |-> S("AZURE"),
        extraction_scope |-> NoneVal, scope_identifier |-> NoneVal ] :
      rs \in { xs \in SeqsUpTo(GvResourcePool, MaxGvResources) :
                 \A i, j \in DOMAIN xs : i # j => xs[i].id # xs[j].id },
      rels \in SeqsUpTo(GvRelationshipPool, MaxGvRelationships) }

GvConfigs == { <<>>, <<<<"group_by_resource_group", FALSE>>>> }

\* (theme, layout) arguments: the defaults, supported pairs, an unsupported theme
GvOptions ==
    { [theme |-> NoneVal, layout |-> NoneVal],
      [theme |-> S("dark"), layout |-> S("hierarchical")],
      [theme |-> S("minimal"), layout |-> S("circular")],
      [theme |-> S("neon"), layout |-> NoneVal] }

GvInit ==
    gv \in { [ self |-> GraphvizEngine(c), inv |-> i, call |-> NoneVal ] :
             c \in GvConfigs, i \in GvInventories }

graphviz_render(theme, layout) ==
    gv' = [gv EXCEPT !.call =
             [ theme |-> theme, layout |-> layout,
               outcome |-> GraphvizEngine_render_bytes(gv.self, gv.inv, "dot", theme, layout) ]]

GvFrame == UNCHANGED <<inv_vars, dep, lay, ren, mer, thm, cfg, ext, lbl, jobs>>

GraphvizRender == (\E o \in GvOptions : graphviz_render(o.theme, o.layout)) /\ GvFrame

GvNext == GraphvizRender

InitGraphviz ==
    /\ InvIdle /\ DepIdle /\ LayIdle /\ RenIdle /\ MerIdle /\ ThmIdle /\ CfgIdle /\ ExtIdle
    /\ LblIdle /\ GvInit /\ JobsIdle

SpecGraphviz == InitGraphviz /\ [][GvNext]_vars

\* ---- claims checked under SpecGraphviz ----

GvRendered == gv.call # NoneVal /\ gv.call.outcome.ok

GvLines == gv.call.outcome.val.v

GvResources == { gv.inv.resources[i] : i \in DOMAIN gv.inv.resources }

\* `piece` occurs in `line`
Occurs(piece, line) ==
    \E k \in 1..(Len(line) - Len(piece) + 1) : SubSeq(line, k, k + Len(piece) - 1) = piece

\* the name DOT reads between two quotes: a backslash takes the character
\* after it with it, the first quote not so taken ends the name; 0 when
\* nothing ends it
RECURSIVE DotStringEnd(_, _)
DotStringEnd(line, k) ==
    IF k > Len(line) THEN 0
    ELSE IF line[k] = Backslash THEN DotStringEnd(line, k + 2)
    ELSE IF line[k] = Quote THEN k
    ELSE DotStringEnd(line, k + 1)

\* the containers of a resource among the resources of the inventory
GvContainersOf(id) ==
    { gv.inv.relationships[i].source_id : i \in
        { j \in DOMAIN gv.inv.relationships :
            /\ gv.inv.relationships[j].relationship_type = "CONTAINS"
            /\ gv.inv.relationships[j].target_id = id
            /\ gv.inv.relationships[j].source_id # id
            /\ \E r \in GvResources : r.id = gv.inv.relationships[j].source_id } }

\* the containment level: 0 with no container, else one below the container
RECURSIVE GvLevel(_, _)
GvLevel(id, fuel) ==
    IF fuel = 0 \/ GvContainersOf(id) = {} THEN 0
    ELSE 1 + GvLevel(CHOOSE c \in GvContainersOf(id) : TRUE, fuel - 1)

IsRankSame(line) == line # <<>> /\ line[1] = "    { rank=same; "

\* C24: the resources that one rank=same line of the DOT text names have the
\* same category and the same containment level.
C24_RankSameOneLevel ==
    GvRendered =>
        \A i \in DOMAIN GvLines :
            IsRankSame(GvLines[i]) =>
                \A a, b \in GvResources :
                    ( /\ Occurs(<<Quote>> \o GraphvizEngine_sanitize_id(a.id) \o <<Quote>>,
                                GvLines[i])
                      /\ Occurs(<<Quote>> \o GraphvizEngine_sanitize_id(b.id) \o <<Quote>>,
                                GvLines[i])
                      /\ GraphvizEngine_sanitize_id(a.id) # GraphvizEngine_sanitize_id(b.id) ) =>
                        /\ get_category(a) = get_category(b)
                        /\ GvLevel(a.id, Len(gv.inv.resources))
                             = GvLevel(b.id, Len(gv.inv.resources))

\* C25: in the DOT text every label attribute is a string that DOT ends at
\* the quote the engine wrote to end it: the quote is followed by the next
\* piece of the engine's own text.  The text of a resource is single
\* characters, the engine's text after a label is ", " or ";" or "];".
C25_LabelClosedByEngine ==
    GvRendered =>
        \A i \in DOMAIN GvLines :
            \A k \in DOMAIN GvLines[i] :
                (GvLines[i][k] \in {"label=", "        label="}) =>
                    LET close == DotStringEnd(GvLines[i], k + 2)
                    IN  /\ close # 0
                        /\ close < Len(GvLines[i])
                        /\ GvLines[i][close + 1] \in {", ", ";", "];"}

\* the node statement of a resource
IsNodeOf(line, resource) ==
    /\ Len(line) > Len(resource.id)
    /\ line[1] \in {"    ", "        "}
    /\ line[2] = Quote
    /\ \E k \in 3..Len(line) :
          /\ line[k] = Quote
          /\ line[k + 1] = " ["
          /\ SubSeq(line, 3, k - 1) = GraphvizEngine_sanitize_id(resource.id)

\* C28: in the DOT text the node statements of two different resources of
\* the inventory have different node names.
C28_DistinctNodeNames ==
    GvRendered =>
        \A a, b \in GvResources :
            a.id # b.id =>
                ~\E i \in DOMAIN GvLines : IsNodeOf(GvLines[i], a) /\ IsNodeOf(GvLines[i], b)

\* ---------------------------------------------------------------------------
\* Extraction jobs: src/cloudviz/api/routes/extraction.py
\* One event loop runs the request handlers and the background tasks. A
\* coroutine runs without interruption from one await to the next, so a step of
\* the model is the code between two suspension points.
\* ---------------------------------------------------------------------------
MaxJobs == 2
MaxTime == 1

\* str(uuid.uuid4()): the n-th job id handed out
JobIds == 1..MaxJobs

JobStatusValue ==
    Table({ <<"PENDING", "pending">>, <<"RUNNING", "running">>, <<"COMPLETED", "completed">>,
      <<"FAILED", "failed">>, <<"CANCELLED", "cancelled">> })
JobStatus == DOMAIN JobStatusValue

ApiExtractionScopeValue ==
    Table({ <<"SUBSCRIPTION", "subscription">>, <<"RESOURCE_GROUP", "resource_group">>, <<"REGION", "region">> })

\* ExtractionRequest with the defaults of its optional fields
ExtractionRequest(provider, scope) ==
    [provider |-> provider, scope |-> scope, scope_identifier |-> S("sub-1"), filters |-> <<>>,
     include_relationships |-> TRUE, resource_types |-> NoneVal, regions |-> NoneVal, tags |-> NoneVal]

\* request.dict()
ExtractionRequest_dict(request) ==
    << <<"provider", request.provider>>, <<"scope", request.scope>>,
       <<"scope_identifier", request.scope_identifier>>, <<"filters", request.filters>>,
       <<"include_relationships", request.include_relationships>>,
       <<"resource_types", request.resource_types>>, <<"regions", request.regions>>,
       <<"tags", request.tags>> >>

ExtractionRequests ==
    {ExtractionRequest("AZURE", "SUBSCRIPTION"), ExtractionRequest("AWS", "RESOURCE_GROUP"),
     ExtractionRequest("GCP", "REGION")}

\* datetime.now() at tick n of the clock
datetime_now(self) == DateTime(self.now, 0, FALSE)

Exception(type, text) == [type |-> type, text |-> text]
\* extraction_jobs[job_id] of a job id that is not a key
KeyError(job_id) == Exception("KeyError", Str(<<"'", ToText(job_id), "'">>))

\* del d[k]
Del(items, k) ==
    LET Other(p) == p[1] # k
    IN SelectSeq(items, Other)

\* extraction_jobs[job_id][key] = value, the record being there
SetItem(extraction_jobs, job_id, key, value) ==
    Put(extraction_jobs, job_id, Put(Get(extraction_jobs, job_id, <<>>), key, value))

\* the program after module import: no job, no task, no response sent
JobsInit ==
    jobs = [extraction_jobs |-> <<>>, tasks |-> <<>>, now |-> 0, response |-> NoneVal]

\* extract_resources: the record, the background task, the response
extract_resources(request, username) ==
    \E job_id \in JobIds :
        /\ job_id = Len(jobs.tasks) + 1
        /\ LET record ==
                   << <<"id", job_id>>, <<"status", "PENDING">>, <<"request", ExtractionRequest_dict(request)>>,
                      <<"user", username>>, <<"created_at", datetime_now(jobs)>>, <<"started_at", NoneVal>>,
                      <<"completed_at", NoneVal>>, <<"result", NoneVal>>, <<"error", NoneVal>> >>
               estimated_duration ==
                   CASE request.scope = "SUBSCRIPTION" -> 60
                     [] request.scope = "RESOURCE_GROUP" -> 30
                     [] request.scope = "REGION" -> 45
                     [] OTHER -> 60
           IN jobs' = [jobs EXCEPT
                  !.extraction_jobs = Put(@, job_id, record),
                  !.tasks = Put(@, job_id, [pc |-> "scheduled", request |-> request, exception |-> NoneVal]),
                  !.response = Ok([job_id |-> job_id, status |-> "PENDING",
                                   message |-> S("Extraction job started"),
                                   estimated_duration_seconds |-> estimated_duration,
                                   result_url |-> Str(<<"/api/v1/jobs/", ToText(job_id)>>)])]

\* the except block of perform_extraction, entered with exception e: the record
\* is looked up again, and a KeyError there leaves the coroutine
perform_extraction_except(self, job_id, e) ==
    IF ~HasKey(self.extraction_jobs, job_id)
    THEN [self EXCEPT !.tasks = Put(@, job_id,
              [Get(@, job_id, NoneVal) EXCEPT !.pc = "raised", !.exception = KeyError(job_id)])]
    ELSE [self EXCEPT
              !.extraction_jobs =
                  SetItem(SetItem(SetItem(@, job_id, "status", "FAILED"), job_id, "error", e.text),
                          job_id, "completed_at", datetime_now(self)),
              !.tasks = Put(@, job_id, [Get(@, job_id, NoneVal) EXCEPT !.pc = "returned"])]

\* extract_aws_resources, extract_gcp_resources: raise with no await before
NotImplementedDetail ==
    Table({ <<"AWS", S("AWS extraction not yet implemented")>>,
      <<"GCP", S("GCP extraction not yet implemented")>> })

\* perform_extraction from its start to the first suspension or to its end
perform_extraction_start(self, job_id) ==
    LET task == Get(self.tasks, job_id, NoneVal)
        running ==
            [self EXCEPT !.extraction_jobs =
                SetItem(SetItem(@, job_id, "status", "RUNNING"), job_id, "started_at", datetime_now(self))]
    IN IF ~HasKey(self.extraction_jobs, job_id)
       THEN perform_extraction_except(self, job_id, KeyError(job_id))
       ELSE IF task.request.provider = "AZURE"
            \* await asyncio.sleep(2) in extract_azure_resources
            THEN [running EXCEPT !.tasks = Put(@, job_id, [task EXCEPT !.pc = "sleeping"])]
            ELSE perform_extraction_except(running, job_id,
                     Exception("HTTPException", NotImplementedDetail[task.request.provider]))

\* the resources extract_azure_resources makes: resource_type is a str, where
\* CloudResource.to_dict reads resource_type.value
MockResourceType == S("virtual_machine")
MockResourceCount == 5

\* inventory.to_dict() of the mock inventory: the first resource's to_dict
\* reads .value of a str
mock_inventory_to_dict ==
    IF MockResourceCount > 0 /\ MockResourceType.t = "str"
    THEN Raise(Exception("AttributeError", S("'str' object has no attribute 'value'")))
    ELSE Ok(<< <<"resources", <<>>>>, <<"relationships", <<>>>> >>)

\* perform_extraction from the end of the sleep to its end
perform_extraction_resume(self, job_id) ==
    LET completed ==
            [self EXCEPT !.extraction_jobs =
                SetItem(SetItem(@, job_id, "status", "COMPLETED"), job_id, "completed_at", datetime_now(self))]
        result == mock_inventory_to_dict
    IN IF ~HasKey(self.extraction_jobs, job_id)
       THEN perform_extraction_except(self, job_id, KeyError(job_id))
       ELSE IF ~result.ok
            THEN perform_extraction_except(completed, job_id, result.err)
            ELSE [completed EXCEPT
                      !.extraction_jobs =
                          SetItem(SetItem(SetItem(@, job_id, "result", result.val),
                                          job_id, "resource_count", IntVal(MockResourceCount)),
                                  job_id, "relationship_count", IntVal(0)),
                      !.tasks = Put(@, job_id, [Get(@, job_id, NoneVal) EXCEPT !.pc = "returned"])]

\* cancel_extraction_job: 404, or cancel and delete
cancel_extraction_job(self, job_id) ==
    IF ~HasKey(self.extraction_jobs, job_id)
    THEN [self EXCEPT !.response = Raise(Exception("HTTPException", S("Job not found")))]
    ELSE LET job == Get(self.extraction_jobs, job_id, <<>>)
             cancelled ==
                 IF Get(job, "status", NoneVal) \in {"PENDING", "RUNNING"}
                 THEN Put(Put(job, "status", "CANCELLED"), "completed_at", datetime_now(self))
                 ELSE job
         IN [self EXCEPT
                 !.extraction_jobs =
                     IF Get(cancelled, "status", NoneVal) \in {"COMPLETED", "FAILED", "CANCELLED"}
                     THEN Del(@, job_id)
                     ELSE Put(@, job_id, cancelled),
                 !.response = Ok(S("Job cancelled/deleted successfully"))]

Usernames == {S("alice")}

JobsFrame == UNCHANGED <<inv_vars, dep, lay, ren, mer, thm, cfg, ext, lbl, gv>>

ExtractResources ==
    (\E request \in ExtractionRequests, username \in Usernames : extract_resources(request, username))
        /\ JobsFrame

TaskPc(job_id) == Get(jobs.tasks, job_id, [pc |-> "none"]).pc

PerformExtractionStart ==
    (\E job_id \in JobIds :
        /\ TaskPc(job_id) = "scheduled"
        /\ jobs' = perform_extraction_start(jobs, job_id)) /\ JobsFrame

PerformExtractionResume ==
    (\E job_id \in JobIds :
        /\ TaskPc(job_id) = "sleeping"
        /\ jobs' = perform_extraction_resume(jobs, job_id)) /\ JobsFrame

CancelExtractionJob ==
    (\E job_id \in JobIds : jobs' = cancel_extraction_job(jobs, job_id)) /\ JobsFrame

\* time passes
Tick ==
    /\ jobs.now < MaxTime
    /\ jobs' = [jobs EXCEPT !.now = @ + 1]
    /\ JobsFrame

JobsNext == ExtractResources \/ PerformExtractionStart \/ PerformExtractionResume \/ CancelExtractionJob \/ Tick

InitJobs ==
    /\ InvIdle /\ DepIdle /\ LayIdle /\ RenIdle /\ MerIdle /\ ThmIdle /\ CfgIdle /\ ExtIdle
    /\ LblIdle /\ GvIdle /\ JobsInit

SpecJobs == InitJobs /\ [][JobsNext]_vars

\* the task of job_id is over
TaskEnded(job_id) == TaskPc(job_id) \in {"returned", "raised"}

\* C30: whatever the order of a cancel request and the steps of the background
\* task of the same job, the task returns: no exception leaves perform_extraction
\* because the record it reads or writes has been deleted.
C30_TaskEndsWithoutError ==
    \A job_id \in JobIds :
        TaskEnded(job_id) => Get(jobs.tasks, job_id, NoneVal).exception = NoneVal

====
